---- MODULE Spec2Model ----
(***************************************************************************)
(* A model of guacamole-common-js: the Display render queue (tasks,        *)
(* frames, flush), the ChainedTunnel fail-over logic, and the              *)
(* WebSocketTunnel and HTTPTunnel state machines.                          *)
(*                                                                         *)
(* Each subsystem has its own variables, its own next-state relation and   *)
(* its own specification; a subsystem's actions leave the variables of     *)
(* the other subsystems unchanged.                                         *)
(***************************************************************************)
EXTENDS Integers, Sequences, FiniteSets, TLC

(***************************************************************************)
(* Bounds of the model.                                                    *)
(***************************************************************************)
\* Number of tasks scheduleTask may create in one run.
MaxTasks == 4
\* Number of frames Display.flush may seal in one run.
MaxFrames == 3
\* Number of inner tunnels handed to the ChainedTunnel constructor.
NumTunnels == 3
\* Number of times the consumer may call ChainedTunnel.connect.
MaxChainConnects == 2
\* Number of instructions the inner tunnels may deliver in one run.
MaxInstructions == 2
\* Number of times connect may be called on a WebSocketTunnel or HTTPTunnel.
MaxTunnelConnects == 2
\* Number of sendMessage calls in one run.
MaxMessages == 3
\* Number of sample instructions in a stream given to the Parser.
MaxStream == 2
\* Length of the long element, and of the packet that carries most of it.
LongElement == 4084
LongPacket == 4096
\* A Status is made with a code between -MaxCode and MaxCode.
MaxCode == 300
\* Number of output streams the Client may create in one run.
MaxStreams == 3
\* Number of Client.connect calls in one run.
MaxClientConnects == 2
\* The sync instructions received carry a timestamp in 0..MaxTimestamp.
MaxTimestamp == 1
\* Number of sync instructions the Client receives in one run.
MaxSyncs == 2
\* ArrayBufferWriter.sendData is given up to MaxData bytes, and every size
\* within Spread of 0, of one and of two full blobs.
MaxData == 20000
Spread == 40
\* Number of bytes a StringReader is given in one run.
MaxBytes == 4
\* The server answers the first MaxRequests read requests of an HTTPTunnel.
MaxRequests == 2
\* Number of times an HTTPTunnel is connected in one run of its read requests.
MaxReadConnects == 2
\* A read response arrives in pieces of up to MaxChunk characters.
MaxChunk == 4
\* The layer indices of the instructions are 0..MaxLayer.
MaxLayer == 2
\* Number of VisibleLayer objects made, the default layer included.
MaxLayerObjects == 4
\* A Layer saves up to MaxDepth states.
MaxDepth == 2
\* Widths, heights and coordinates are 0..MaxExtent.
MaxExtent == 2
\* Number of instructions of a stream that is received one instruction per
\* packet.
AlignedInstructions == 4

(***************************************************************************)
(* Program constants.                                                      *)
(***************************************************************************)
\* Tunnel.State
CONNECTING == 0
OPEN == 1
CLOSED == 2
\* Status.Code
SUCCESS == 0
SERVER_ERROR == 512
UPSTREAM_TIMEOUT == 514
RESOURCE_NOT_FOUND == 516
\* Parser.receive truncates the buffer when start_index is above this.
TruncateAbove == 4096
\* The value NaN in the model's arithmetic (no number of the program is -2).
NaN == -2
\* Client states
STATE_IDLE == 0
STATE_CONNECTING == 1
STATE_WAITING == 2
STATE_CONNECTED == 3
STATE_DISCONNECTING == 4
STATE_DISCONNECTED == 5
\* Number of bytes of binary data a blob may carry.
BlobLength == 8064
\* The code unit of U+FFFD, which StringReader writes for an invalid byte.
REPLACEMENT == 65533

(***************************************************************************)
(* State.                                                                  *)
(***************************************************************************)
VARIABLES
    \* ---- Display (src/unnamed/part_001, 2657-2908) ----
    tasks,        \* var tasks: ids of the pending tasks, in scheduling order
    frames,       \* var frames: queue of sealed frames
    blocked,      \* Task.blocked of every task created so far, by task id
    executed,     \* history: Task.execute and frame callback calls, in order
    flushed,      \* history: every frame ever sealed by Display.flush, in order
    startBlocked, \* history: the blocked argument each task was created with
    \* ---- ChainedTunnel (src/src/WebSocketTunnel.js, 311-473) ----
    c_tunnels,      \* var tunnels: the inner tunnels not tried yet, in priority order
    c_committed,    \* var committedTunnel (0 is null)
    c_attached,     \* the tunnel whose disconnect/sendMessage the chained tunnel took over (0: none)
    c_handlers,     \* per inner tunnel: its onstatechange/oninstruction/onerror slots
                    \*   "null", "wrapped" (the closures of attach) or "consumer"
                    \*   (the chained tunnel's own handlers, set by commit_tunnel)
    c_state,        \* per inner tunnel: tunnel.state
    c_pending,      \* per inner tunnel: a connection attempt started by connect is outstanding
    c_connects,     \* history: per inner tunnel, the number of connect calls it received
    c_new,          \* history: the calls made to the chained tunnel's own handlers by
                    \*   the latest step, in order
    c_errors,       \* history: number of calls of the chained tunnel's onerror
    c_delivered,    \* history: per instruction, how often oninstruction got it
    c_calls,        \* history: number of ChainedTunnel.connect calls
    c_instructions, \* history: number of instructions delivered by inner tunnels
    c_failCode,     \* history: per inner tunnel, the status code it last closed with (-1: never)
    c_timedOut,     \* history: a tunnel reported UPSTREAM_TIMEOUT through the wrapped onerror
                    \*   while no tunnel was committed
    \* ---- WebSocketTunnel (src/src/WebSocketTunnel.js, 33-271) and
    \*      HTTPTunnel (src/unnamed/part_000, 39-463) ----
    t_kind,         \* which constructor made the tunnel: "ws" or "http"
    t_state,        \* tunnel.state
    t_timer,        \* receive_timeout: a timeout set by reset_timeout is still to fire
    t_connects,     \* history: number of connect calls
    t_calls,        \* history: the calls of tunnel.onerror, tunnel.onstatechange and
                    \*   tunnel.oninstruction made by the latest step, in order
    t_errors,       \* history: number of onerror calls, by the number of connect calls before
    t_closes,       \* history: number of onstatechange(CLOSED) calls, likewise
    t_disconnects,  \* history: number of those made for a close with status SUCCESS, likewise
    t_reset,        \* history: the latest step called reset_timeout
    t_msgState,     \* history: tunnel.state at each sendMessage call, by message id
    w_socket,       \* var socket: index of the current WebSocket (0 is null)
    w_sockets,      \* readyState of every WebSocket created so far
    w_sent,         \* history: the messages passed to socket.send, in order
    h_sendingMessages,  \* var sendingMessages
    h_buffer,       \* var outputMessageBuffer: the encoded messages it holds, in order
    h_posts,        \* history: the write POSTs issued, in order: body and whether complete
    h_connectPending,   \* number of connect POSTs whose response has not arrived
    h_reading,      \* handleResponse(makeRequest()) has started reading
    h_pollingMode,  \* var pollingMode is POLLING_ENABLED
    h_wrapped,      \* the read request's onreadystatechange is the polling-detection
                    \*   wrapper around parseResponse
    h_dataUpdateEvents, \* var dataUpdateEvents of handleResponse
    h_interval      \* var interval of handleResponse is set: parseResponse runs
                    \*   every 30 ms

VARIABLES
    \* ---- Parser ----
    p_instructions, \* the instructions whose encoding is given to the parser
    p_input,        \* their encoding: the characters the parser receives
    p_fed,          \* number of characters given to receive so far
    p_packets,      \* history: number of receive calls
    p_buffer,       \* var buffer
    p_element_buffer,   \* var element_buffer
    p_element_end,  \* var element_end
    p_start_index,  \* var start_index
    p_emitted,      \* history: the oninstruction calls, in order
    p_error,        \* history: message of the Error receive threw last
    p_truncations   \* history: number of times receive truncated the buffer

VARIABLES
    \* ---- Status ----
    s_code,         \* the code the Status is made with
    s_isError,      \* what isError() returned, once it was called
    \* ---- Client: output streams ----
    k_stream_indices,   \* var stream_indices, an IntegerPool
    k_output_streams,   \* var output_streams
    k_index,        \* per OutputStream created: its index
    k_ended,        \* history: per OutputStream, whether sendEnd was called on it
    k_invalid,      \* history: per OutputStream, whether an ack invalidated it
    k_freed,        \* history: the integer given to free, if free was the latest
                    \*   call on the pool (-1 otherwise)
    k_event,        \* history: what the latest step did: the operation, the index,
                    \*   the ack's code, the stream whose onack was called, the
                    \*   integer next() returned
    \* ---- Client: connection and sync ----
    cl_state,       \* var currentState
    cl_timestamp,   \* var currentTimestamp
    cl_pingInterval,    \* var pingInterval
    cl_intervals,   \* the keep-alive intervals still running
    cl_delivering,  \* the tunnel delivers instructions to the client
    cl_connects,    \* history: number of connect calls
    cl_syncs,       \* history: per sync received, its timestamp and the number
                    \*   of tasks scheduled before it
    cl_echoes,      \* history: the syncs answered, in order, each with the
                    \*   position of its callback among the display's calls
    cl_changes,     \* history: the onstatechange calls of the latest step
    cl_calls,       \* history: the calls on the tunnel in the latest step
    cl_onerror,     \* history: the codes guac_client.onerror was called with in
                    \*   the latest step
    cl_event        \* history: the operation of the latest step

VARIABLES
    \* ---- ArrayBufferWriter ----
    ab_length,      \* history: number of bytes given to the latest sendData
    ab_blobs        \* history: the blobs the latest sendData sent, in order

VARIABLES
    \* ---- StringReader ----
    sr_input,       \* the bytes the stream delivers
    sr_fed,         \* number of bytes delivered so far
    sr_bytes_remaining, \* var bytes_remaining
    sr_codepoint,   \* var codepoint
    sr_text,        \* history: the texts given to ontext, concatenated
    sr_cuts         \* history: the positions at which a blob ended

VARIABLES
    \* ---- Client: input streams ----
    in_streams,     \* var streams
    in_index,       \* per InputStream created: its index
    in_refused,     \* history: the InputStreams whose holder has called sendAck
                    \*   with a code of 0x0100 or above
    in_event        \* history: what the latest step did: the operation, the
                    \*   index, the stream created or whose handler was called,
                    \*   the ack's code and whether the ack went to the tunnel

VARIABLES
    \* ---- HTTPTunnel: read requests ----
    rq_state,       \* tunnel.state
    rq_pollingMode, \* var pollingMode (TRUE: POLLING_ENABLED)
    rq_request_id,  \* var request_id
    rq_requests,    \* the read requests made so far
    rq_connects,    \* history: number of connect calls answered 200
    rq_new,         \* history: the oninstruction calls of the latest step
    rq_reset,       \* history: reset_timeout was called in the latest step
    rq_event        \* history: the operation of the latest step

VARIABLES
    \* ---- Display: callbacks that call back into the display ----
    re_frames,      \* the frames (ids) whose callback calls Display.flush() the
                    \*   first time it is invoked
    re_done         \* the frames (ids) whose callback has made that call

VARIABLES
    \* ---- WebSocketTunnel: socket.onmessage ----
    wm_instructions,    \* the instructions the message starts with
    wm_tail,            \* the characters of the message after them
    wm_called,          \* socket.onmessage was called with the message
    wm_delivered,       \* history: the oninstruction calls, in order
    wm_closed,          \* history: close_tunnel was called with SERVER_ERROR
    wm_hangs            \* history: the do-while loop never ends

VARIABLES
    \* ---- Client and Display: the visible layers ----
    ly_layers,      \* var layers of the Client: per index, the layer object
                    \*   stored there (0: no entry)
    ly_parent,      \* per VisibleLayer object: layer.parent (0: null)
    ly_children     \* per VisibleLayer object: the objects in layer.children

VARIABLES
    \* ---- Layer: size and saved states ----
    la_width,       \* layer.width
    la_height,      \* layer.height
    la_autosize,    \* layer.autosize
    la_stackSize,   \* var stackSize
    la_event        \* history: the operation of the latest step

dvars == <<tasks, frames, blocked, executed, flushed, startBlocked>>

cvars == <<c_tunnels, c_committed, c_attached, c_handlers, c_state, c_pending,
           c_connects, c_new, c_errors, c_delivered, c_calls, c_instructions,
           c_failCode, c_timedOut>>

tvars == <<t_kind, t_state, t_timer, t_connects, t_calls, t_errors, t_closes,
           t_disconnects, t_reset, t_msgState, w_socket, w_sockets, w_sent,
           h_sendingMessages, h_buffer, h_posts, h_connectPending, h_reading,
           h_pollingMode, h_wrapped, h_dataUpdateEvents, h_interval>>

pvars == <<p_instructions, p_input, p_fed, p_packets, p_buffer, p_element_buffer,
           p_element_end, p_start_index, p_emitted, p_error, p_truncations>>

svars == <<s_code, s_isError>>

kvars == <<k_stream_indices, k_output_streams, k_index, k_ended, k_invalid, k_freed, k_event>>

lvars == <<cl_state, cl_timestamp, cl_pingInterval, cl_intervals, cl_delivering,
           cl_connects, cl_syncs, cl_echoes, cl_changes, cl_calls, cl_onerror,
           cl_event>>

bvars == <<ab_length, ab_blobs>>

rvars == <<sr_input, sr_fed, sr_bytes_remaining, sr_codepoint, sr_text, sr_cuts>>

ivars == <<in_streams, in_index, in_refused, in_event>>

qvars == <<rq_state, rq_pollingMode, rq_request_id, rq_requests, rq_connects, rq_new, rq_reset, rq_event>>

evars == <<re_frames, re_done>>

mvars == <<wm_instructions, wm_tail, wm_called, wm_delivered, wm_closed, wm_hangs>>

yvars == <<ly_layers, ly_parent, ly_children>>

gvars == <<la_width, la_height, la_autosize, la_stackSize, la_event>>

vars == <<dvars, cvars, tvars, pvars, svars, kvars, lvars, bvars, rvars, ivars, qvars, evars, mvars, yvars, gvars>>

\* What the actions of each subsystem leave alone.
others_D == <<cvars, tvars, pvars, svars, kvars, lvars, bvars, rvars, ivars, qvars, evars, mvars, yvars, gvars>>
others_C == <<dvars, tvars, pvars, svars, kvars, lvars, bvars, rvars, ivars, qvars, evars, mvars, yvars, gvars>>
others_T == <<dvars, cvars, pvars, svars, kvars, lvars, bvars, rvars, ivars, qvars, evars, mvars, yvars, gvars>>
others_P == <<dvars, cvars, tvars, svars, kvars, lvars, bvars, rvars, ivars, qvars, evars, mvars, yvars, gvars>>
others_S == <<dvars, cvars, tvars, pvars, kvars, lvars, bvars, rvars, ivars, qvars, evars, mvars, yvars, gvars>>
others_K == <<dvars, cvars, tvars, pvars, svars, lvars, bvars, rvars, ivars, qvars, evars, mvars, yvars, gvars>>
\* The client's handlers act on the display too.
others_L == <<cvars, tvars, pvars, svars, kvars, bvars, rvars, ivars, qvars, evars, mvars, yvars, gvars>>
others_G == <<dvars, cvars, tvars, pvars, svars, kvars, lvars, bvars, rvars, ivars, qvars, evars, mvars, yvars>>
others_Y == <<dvars, cvars, tvars, pvars, svars, kvars, lvars, bvars, rvars, ivars, qvars, evars, mvars, gvars>>
others_M == <<dvars, cvars, tvars, pvars, svars, kvars, lvars, bvars, rvars, ivars, qvars, evars, yvars, gvars>>
\* The actions of the re-entrant display act on the display too.
others_E == <<cvars, tvars, pvars, svars, kvars, lvars, bvars, rvars, ivars, qvars, mvars, yvars, gvars>>
others_Q == <<dvars, cvars, tvars, pvars, svars, kvars, lvars, bvars, rvars, ivars, evars, mvars, yvars, gvars>>
others_I == <<dvars, cvars, tvars, pvars, svars, kvars, lvars, bvars, rvars, qvars, evars, mvars, yvars, gvars>>
others_R == <<dvars, cvars, tvars, pvars, svars, kvars, lvars, bvars, ivars, qvars, evars, mvars, yvars, gvars>>
others_B == <<dvars, cvars, tvars, pvars, svars, kvars, lvars, rvars, ivars, qvars, evars, mvars, yvars, gvars>>

(***************************************************************************)
(* Helpers on sequences.                                                   *)
(***************************************************************************)
RECURSIVE Flatten(_)
Flatten(ss) == IF ss = <<>> THEN <<>> ELSE Head(ss) \o Flatten(Tail(ss))

Range(s) == { s[i] : i \in 1..Len(s) }

(***************************************************************************)
(* Display: Frame, Task, __flush_frames.                                   *)
(*                                                                         *)
(* A frame is a record [id, tasks, callback]: id is its position in the    *)
(* order of Display.flush calls, tasks the sealed array of task ids,       *)
(* callback whether a callback was passed to flush.                        *)
(***************************************************************************)

\* Frame.isReady with an early "return true" after the first task.
isReady_firstOnly(frame, bl) ==
    \/ frame.tasks = <<>>
    \/ ~bl[frame.tasks[1]]

\* Frame.isReady: true iff no task of the frame is blocked.
isReady(frame, bl) ==
    \A i \in 1..Len(frame.tasks) : ~bl[frame.tasks[i]]

\* Frame.flush calling the callback before drawing the tasks.
FrameFlush_callbackFirst(frame) ==
    (IF frame.callback THEN << [kind |-> "callback", frame |-> frame.id] >> ELSE <<>>)
    \o [i \in 1..Len(frame.tasks) |-> [kind |-> "task", task |-> frame.tasks[i]]]

\* Frame.flush: executes every task in order, then calls the callback, if any.
\* The result is the sequence of calls made.
FrameFlush(frame) ==
    [i \in 1..Len(frame.tasks) |-> [kind |-> "task", task |-> frame.tasks[i]]]
    \o (IF frame.callback THEN << [kind |-> "callback", frame |-> frame.id] >> ELSE <<>>)

\* The while loop of __flush_frames: the number of leading frames that are
\* ready (the loop breaks at the first frame that is not).
RECURSIVE RenderedFrames(_, _)
RenderedFrames(fs, bl) ==
    IF fs = <<>> \/ ~isReady(Head(fs), bl) THEN 0
    ELSE 1 + RenderedFrames(Tail(fs), bl)

\* __flush_frames flushing every ready frame, without the loop's break at the
\* first frame that is not ready.
flush_frames_skipBlocked(fs, bl) ==
    LET ready == { i \in 1..Len(fs) : isReady(fs[i], bl) }
        Keep(i) == IF i \in ready THEN <<>> ELSE <<fs[i]>>
        Run(i) == IF i \in ready THEN FrameFlush(fs[i]) ELSE <<>>
    IN  [ calls  |-> Flatten([i \in 1..Len(fs) |-> Run(i)]),
          frames |-> Flatten([i \in 1..Len(fs) |-> Keep(i)]) ]

\* __flush_frames on frame queue fs with blocked flags bl: the calls made by
\* flushing the rendered frames, and the queue after the splice.
flush_frames(fs, bl) ==
    LET rendered_frames == RenderedFrames(fs, bl) IN
    [ calls  |-> Flatten([i \in 1..rendered_frames |-> FrameFlush(fs[i])]),
      frames |-> SubSeq(fs, rendered_frames + 1, Len(fs)) ]

(***************************************************************************)
(* ChainedTunnel.                                                          *)
(*                                                                         *)
(* The functions of the source are operators on a record cs holding the    *)
(* chained tunnel's variables and the inner tunnels' fields; each returns  *)
(* the record after the call. The inner tunnels are numbered 1..NumTunnels *)
(* in constructor-argument order. The consumer has set onstatechange,      *)
(* oninstruction and onerror on the chained tunnel before connecting.      *)
(***************************************************************************)
Tunnels == 1..NumTunnels

ChainState ==
    [ tunnels |-> c_tunnels, committed |-> c_committed, attached |-> c_attached,
      handlers |-> c_handlers, state |-> c_state, pending |-> c_pending,
      connects |-> c_connects, consumer |-> <<>>, errors |-> c_errors,
      delivered |-> c_delivered ]

\* A call of chained_tunnel.onerror (type "error"), onstatechange or
\* oninstruction, made on behalf of inner tunnel from (0: by connect itself).
Deliver(cs, type, from, arg) ==
    [cs EXCEPT !.consumer = Append(@, [type |-> type, from |-> from, arg |-> arg]),
               !.errors = IF type = "error" THEN @ + 1 ELSE @,
               !.delivered = IF type = "instruction" THEN [@ EXCEPT ![arg] = @ + 1] ELSE @]

\* attach(tunnel): take over disconnect/sendMessage, wrap the three handlers,
\* call tunnel.connect(connect_data).
attach(cs, t) ==
    [cs EXCEPT !.attached = t,
               !.handlers[t] = "wrapped",
               !.connects[t] = @ + 1,
               !.pending[t] = TRUE]

\* failTunnel that moves on to the next tunnel after UPSTREAM_TIMEOUT too.
failTunnel_noTimeoutCheck(cs, t, code) ==
    IF cs.tunnels # <<>>
    THEN [ next |-> Head(cs.tunnels),
           cs   |-> attach([cs EXCEPT !.tunnels = Tail(@), !.handlers[t] = "null"],
                           Head(cs.tunnels)) ]
    ELSE [ next |-> 0, cs |-> cs ]

\* failTunnel(status) of the attach(t) closure; code is -1 when called
\* without a status. Returns the next tunnel (0: none) and the new state.
failTunnel(cs, t, code) ==
    IF code = UPSTREAM_TIMEOUT
    THEN [ next |-> 0, cs |-> [cs EXCEPT !.tunnels = <<>>] ]
    ELSE IF cs.tunnels # <<>>
    THEN [ next |-> Head(cs.tunnels),
           cs   |-> attach([cs EXCEPT !.tunnels = Tail(@), !.handlers[t] = "null"],
                           Head(cs.tunnels)) ]
    ELSE [ next |-> 0, cs |-> cs ]

\* commit_tunnel() of the attach(t) closure.
commit_tunnel(cs, t) ==
    [cs EXCEPT !.handlers[t] = "consumer", !.committed = t]

\* The wrapped onerror reporting the failure although a next tunnel took over.
wrapped_onerror_alwaysReports(cs, t, code) ==
    Deliver(failTunnel(cs, t, code).cs, "error", t, code)

\* tunnel.onerror as set by attach(t).
wrapped_onerror(cs, t, code) ==
    LET f == failTunnel(cs, t, code) IN
    IF f.next = 0 THEN Deliver(f.cs, "error", t, code) ELSE f.cs

\* tunnel.onstatechange as set by attach(t).
wrapped_onstatechange(cs, t, st) ==
    IF st = OPEN THEN Deliver(commit_tunnel(cs, t), "statechange", t, st)
    ELSE IF st = CLOSED
    THEN LET f == failTunnel(cs, t, -1) IN
         IF f.next = 0 THEN Deliver(f.cs, "statechange", t, st) ELSE f.cs
    ELSE cs

\* tunnel.oninstruction as set by attach(t).
wrapped_oninstruction(cs, t, n) ==
    Deliver(commit_tunnel(cs, t), "instruction", t, n)

\* Inner tunnel t invokes its handler slots.
fire_onerror(cs, t, code) ==
    CASE cs.handlers[t] = "wrapped"  -> wrapped_onerror(cs, t, code)
      [] cs.handlers[t] = "consumer" -> Deliver(cs, "error", t, code)
      [] OTHER -> cs

fire_onstatechange(cs, t, st) ==
    CASE cs.handlers[t] = "wrapped"  -> wrapped_onstatechange(cs, t, st)
      [] cs.handlers[t] = "consumer" -> Deliver(cs, "statechange", t, st)
      [] OTHER -> cs

fire_oninstruction(cs, t, n) ==
    CASE cs.handlers[t] = "wrapped"  -> wrapped_oninstruction(cs, t, n)
      [] cs.handlers[t] = "consumer" -> Deliver(cs, "instruction", t, n)
      [] OTHER -> cs

\* close_tunnel(status) of an inner tunnel, as in WebSocketTunnel: ignored when
\* already CLOSED; onerror unless SUCCESS; then state CLOSED and onstatechange.
inner_close_tunnel(cs, t, code) ==
    IF cs.state[t] = CLOSED THEN cs
    ELSE LET cs1 == IF code # SUCCESS THEN fire_onerror(cs, t, code) ELSE cs
             cs2 == [cs1 EXCEPT !.state[t] = CLOSED, !.pending[t] = FALSE]
         IN  fire_onstatechange(cs2, t, CLOSED)

ChainInit ==
    /\ c_tunnels = [i \in Tunnels |-> i]
    /\ c_committed = 0
    /\ c_attached = 0
    /\ c_handlers = [i \in Tunnels |-> "null"]
    /\ c_state = [i \in Tunnels |-> CONNECTING]
    /\ c_pending = [i \in Tunnels |-> FALSE]
    /\ c_connects = [i \in Tunnels |-> 0]
    /\ c_new = <<>>
    /\ c_errors = 0
    /\ c_delivered = [n \in 1..MaxInstructions |-> 0]
    /\ c_calls = 0
    /\ c_instructions = 0
    /\ c_failCode = [i \in Tunnels |-> -1]
    /\ c_timedOut = FALSE

SetChain(cs) ==
    /\ c_tunnels' = cs.tunnels
    /\ c_committed' = cs.committed
    /\ c_attached' = cs.attached
    /\ c_handlers' = cs.handlers
    /\ c_state' = cs.state
    /\ c_pending' = cs.pending
    /\ c_connects' = cs.connects
    /\ c_new' = cs.consumer
    /\ c_errors' = cs.errors
    /\ c_delivered' = cs.delivered

\* ChainedTunnel.connect(data)
ChainConnect ==
    /\ c_calls < MaxChainConnects
    /\ c_calls' = c_calls + 1
    /\ LET cs == ChainState IN
       IF c_committed # 0 THEN SetChain(attach(cs, c_committed))
       ELSE IF c_tunnels # <<>>
       THEN SetChain(attach([cs EXCEPT !.tunnels = Tail(@)], Head(c_tunnels)))
       ELSE SetChain(Deliver(cs, "error", 0, SERVER_ERROR))
    /\ UNCHANGED <<c_instructions, c_failCode, c_timedOut>>
    /\ UNCHANGED others_C

\* ChainedTunnel.disconnect(): the disconnect of the tunnel attached last,
\* which is close_tunnel(SUCCESS).
ChainDisconnect ==
    /\ c_attached # 0
    /\ c_state[c_attached] # CLOSED
    /\ SetChain(inner_close_tunnel(ChainState, c_attached, SUCCESS))
    /\ c_failCode' = [c_failCode EXCEPT ![c_attached] = SUCCESS]
    /\ UNCHANGED <<c_calls, c_instructions, c_timedOut>>
    /\ UNCHANGED others_C

\* An inner tunnel's connection attempt succeeds: state OPEN, onstatechange.
InnerOpen(t) ==
    /\ c_pending[t]
    /\ SetChain(fire_onstatechange(
           [ChainState EXCEPT !.state[t] = OPEN, !.pending[t] = FALSE], t, OPEN))
    /\ UNCHANGED <<c_calls, c_instructions, c_failCode, c_timedOut>>
    /\ UNCHANGED others_C

\* An inner tunnel that was connected and is not CLOSED delivers an instruction.
InnerInstruction(t) ==
    /\ c_connects[t] > 0
    /\ c_state[t] # CLOSED
    /\ c_instructions < MaxInstructions
    /\ c_instructions' = c_instructions + 1
    /\ SetChain(fire_oninstruction(ChainState, t, c_instructions + 1))
    /\ UNCHANGED <<c_calls, c_failCode, c_timedOut>>
    /\ UNCHANGED others_C

\* An inner tunnel that was connected and is not CLOSED closes itself with the
\* given status: a transport or protocol error, its receive timeout, or the
\* server ending the connection.
InnerClose(t, code) ==
    /\ c_connects[t] > 0
    /\ c_state[t] # CLOSED
    /\ SetChain(inner_close_tunnel(ChainState, t, code))
    /\ c_failCode' = [c_failCode EXCEPT ![t] = code]
    /\ c_timedOut' = (c_timedOut \/ (code = UPSTREAM_TIMEOUT /\ c_handlers[t] = "wrapped"
                                      /\ c_committed = 0))
    /\ UNCHANGED <<c_calls, c_instructions>>
    /\ UNCHANGED others_C

NextChain ==
    \/ ChainConnect
    \/ ChainDisconnect
    \/ \E t \in Tunnels : InnerOpen(t)
    \/ \E t \in Tunnels : InnerInstruction(t)
    \/ \E t \in Tunnels : \E code \in {SUCCESS, SERVER_ERROR, UPSTREAM_TIMEOUT} : InnerClose(t, code)

\* The chained tunnel with inner tunnels that close themselves only with an
\* error: a close with SUCCESS is then a disconnect() of the consumer.
NextChainErrors ==
    \/ ChainConnect
    \/ ChainDisconnect
    \/ \E t \in Tunnels : InnerOpen(t)
    \/ \E t \in Tunnels : InnerInstruction(t)
    \/ \E t \in Tunnels : \E code \in {SERVER_ERROR, UPSTREAM_TIMEOUT} : InnerClose(t, code)


(***************************************************************************)
(* WebSocketTunnel and HTTPTunnel.                                         *)
(*                                                                         *)
(* The private functions of the two constructors are operators on a        *)
(* record ts holding the tunnel's fields; each returns the record after    *)
(* the call. The consumer has set onerror, onstatechange and oninstruction.*)
(* A message is identified by the number of the sendMessage call that      *)
(* carried it, and its encoding is the one-element sequence of that        *)
(* number: socket.send arguments, the output buffer and POST bodies are    *)
(* concatenations of encodings.                                            *)
(***************************************************************************)
TunnelState ==
    [ state |-> t_state, timer |-> t_timer, connects |-> t_connects,
      calls |-> <<>>, errors |-> t_errors, closes |-> t_closes,
      disconnects |-> t_disconnects, reset |-> FALSE,
      socket |-> w_socket, sockets |-> w_sockets, sent |-> w_sent,
      sendingMessages |-> h_sendingMessages, buffer |-> h_buffer, posts |-> h_posts ]

\* A call of tunnel.onerror (type "error"), tunnel.onstatechange or
\* tunnel.oninstruction made in tunnel state ts; cause is the status code
\* given to close_tunnel.
Call(ts, type, arg, cause) ==
    [type |-> type, arg |-> arg, cause |-> cause, from |-> ts.state]

\* tunnel.onerror(status)
onerror(ts, code) ==
    [ts EXCEPT !.calls = Append(@, Call(ts, "error", code, code)),
               !.errors[ts.connects] = @ + 1]

\* tunnel.onstatechange(tunnel.state) after tunnel.state was set to st;
\* prev is the tunnel state before.
onstatechange(ts, prev, st, cause) ==
    [ts EXCEPT !.calls = Append(@, [type |-> "statechange", arg |-> st,
                                    cause |-> cause, from |-> prev]),
               !.closes[ts.connects] = IF st = CLOSED THEN @ + 1 ELSE @,
               !.disconnects[ts.connects] =
                    IF st = CLOSED /\ cause = SUCCESS THEN @ + 1 ELSE @]

\* tunnel.oninstruction(opcode, elements)
oninstruction(ts) ==
    [ts EXCEPT !.calls = Append(@, Call(ts, "instruction", 0, SUCCESS))]

\* reset_timeout(): the old timeout is cleared and a new one is set.
reset_timeout(ts) == [ts EXCEPT !.timer = TRUE, !.reset = TRUE]

\* socket.close() on the current socket, as the browser does it: a socket
\* that is connecting or open starts closing and fires no open or message
\* event any more. close_tunnel throws here when socket is still null.
socket_close(ts) ==
    IF ts.socket = 0 THEN ts
    ELSE [ts EXCEPT !.sockets[ts.socket] =
              IF @ \in {"connecting", "open"} THEN "closing" ELSE @]

\* close_tunnel(status) of WebSocketTunnel.
ws_close_tunnel(ts, code) ==
    IF ts.state = CLOSED THEN ts
    ELSE LET ts1 == IF code # SUCCESS THEN onerror(ts, code) ELSE ts
             ts2 == onstatechange([ts1 EXCEPT !.state = CLOSED], ts.state, CLOSED, code)
         IN  socket_close(ts2)

\* close_tunnel of HTTPTunnel reporting every status other than SUCCESS, as
\* the WebSocketTunnel does.
http_close_tunnel_reportsAll(ts, code) ==
    IF ts.state = CLOSED THEN ts
    ELSE LET ts1 == IF code # SUCCESS THEN onerror(ts, code) ELSE ts
         IN  onstatechange([ts1 EXCEPT !.state = CLOSED, !.sendingMessages = FALSE],
                           ts.state, CLOSED, code)

\* close_tunnel(status) of HTTPTunnel.
http_close_tunnel(ts, code) ==
    IF ts.state = CLOSED THEN ts
    ELSE LET ts1 == IF code # SUCCESS /\ (ts.state = CONNECTING \/ code # RESOURCE_NOT_FOUND)
                    THEN onerror(ts, code)
                    ELSE ts
         IN  onstatechange([ts1 EXCEPT !.state = CLOSED, !.sendingMessages = FALSE],
                           ts.state, CLOSED, code)

\* sendMessage without the check of tunnel.state.
CanSend_always(state) == TRUE

\* The first check of sendMessage (both tunnels): only an OPEN tunnel sends.
CanSend(state) == state = OPEN

\* sendPendingMessages that leaves the buffer as it is after the POST.
sendPendingMessages_keepBuffer(ts) ==
    IF ts.state # OPEN THEN ts
    ELSE IF ts.buffer # <<>>
    THEN [ts EXCEPT !.sendingMessages = TRUE,
                    !.posts = Append(@, [body |-> ts.buffer, done |-> FALSE])]
    ELSE [ts EXCEPT !.sendingMessages = FALSE]

\* sendPendingMessages() of HTTPTunnel.
sendPendingMessages(ts) ==
    IF ts.state # OPEN THEN ts
    ELSE IF ts.buffer # <<>>
    THEN [ts EXCEPT !.sendingMessages = TRUE,
                    !.posts = Append(@, [body |-> ts.buffer, done |-> FALSE]),
                    !.buffer = <<>>]
    ELSE [ts EXCEPT !.sendingMessages = FALSE]

\* HTTPTunnel.sendMessage with the encoding of message m.
http_sendMessage(ts, m) ==
    IF ~CanSend(ts.state) THEN ts
    ELSE LET ts1 == [ts EXCEPT !.buffer = @ \o <<m>>] IN
         IF ~ts1.sendingMessages THEN sendPendingMessages(ts1) ELSE ts1

\* WebSocketTunnel.sendMessage with the encoding of message m.
ws_sendMessage(ts, m) ==
    IF ~CanSend(ts.state) THEN ts
    ELSE [ts EXCEPT !.sent = @ \o <<m>>]

\* The variables of the read loop started by the latest connect response.
readvars == <<h_reading, h_pollingMode, h_wrapped, h_dataUpdateEvents, h_interval>>

TunnelInit ==
    /\ t_state = CONNECTING
    /\ t_timer = FALSE
    /\ t_connects = 0
    /\ t_calls = <<>>
    /\ t_errors = [n \in 0..MaxTunnelConnects |-> 0]
    /\ t_closes = [n \in 0..MaxTunnelConnects |-> 0]
    /\ t_disconnects = [n \in 0..MaxTunnelConnects |-> 0]
    /\ t_msgState = <<>>
    /\ w_socket = 0
    /\ w_sockets = <<>>
    /\ w_sent = <<>>
    /\ h_sendingMessages = FALSE
    /\ h_buffer = <<>>
    /\ h_posts = <<>>
    /\ h_connectPending = 0
    /\ t_reset = FALSE
    /\ h_reading = FALSE
    /\ h_pollingMode = TRUE
    /\ h_wrapped = FALSE
    /\ h_dataUpdateEvents = 0
    /\ h_interval = FALSE

SetTunnel(ts) ==
    /\ t_state' = ts.state
    /\ t_timer' = ts.timer
    /\ t_calls' = ts.calls
    /\ t_errors' = ts.errors
    /\ t_closes' = ts.closes
    /\ t_disconnects' = ts.disconnects
    /\ t_reset' = ts.reset
    /\ w_socket' = ts.socket
    /\ w_sockets' = ts.sockets
    /\ w_sent' = ts.sent
    /\ h_sendingMessages' = ts.sendingMessages
    /\ h_buffer' = ts.buffer
    /\ h_posts' = ts.posts

\* ---- WebSocketTunnel ----

\* WebSocketTunnel.connect(data)
WSConnect ==
    /\ t_kind = "ws"
    /\ t_connects < MaxTunnelConnects
    /\ t_connects' = t_connects + 1
    /\ SetTunnel([reset_timeout(TunnelState) EXCEPT
                      !.sockets = Append(@, "connecting"),
                      !.socket = Len(w_sockets) + 1])
    /\ UNCHANGED <<t_kind, t_msgState, h_connectPending, readvars>>
    /\ UNCHANGED others_T

\* socket.onopen
WSSocketOpen(s) ==
    /\ t_kind = "ws"
    /\ s \in 1..Len(w_sockets)
    /\ w_sockets[s] = "connecting"
    /\ LET ts == reset_timeout([TunnelState EXCEPT !.sockets[s] = "open"]) IN
       SetTunnel(onstatechange([ts EXCEPT !.state = OPEN], t_state, OPEN, SUCCESS))
    /\ UNCHANGED <<t_kind, t_connects, t_msgState, h_connectPending, readvars>>
    /\ UNCHANGED others_T

\* socket.onclose: the connection of socket s has ended and the close event
\* carries a reason that parses to the given code.
WSSocketClose(s, code) ==
    /\ t_kind = "ws"
    /\ s \in 1..Len(w_sockets)
    /\ w_sockets[s] \in {"connecting", "open", "closing"}
    /\ SetTunnel(ws_close_tunnel([TunnelState EXCEPT !.sockets[s] = "closed"], code))
    /\ UNCHANGED <<t_kind, t_connects, t_msgState, h_connectPending, readvars>>
    /\ UNCHANGED others_T

\* socket.onerror followed by socket.onclose: the connection of socket s
\* failed, and the close event carries a reason that parses to the given code.
WSSocketError(s, code) ==
    /\ t_kind = "ws"
    /\ s \in 1..Len(w_sockets)
    /\ w_sockets[s] \in {"connecting", "open"}
    /\ SetTunnel(ws_close_tunnel(
           ws_close_tunnel([TunnelState EXCEPT !.sockets[s] = "closed"], SERVER_ERROR), code))
    /\ UNCHANGED <<t_kind, t_connects, t_msgState, h_connectPending, readvars>>
    /\ UNCHANGED others_T

\* socket.onmessage with a message holding one instruction (wellformed), or
\* with a message that lacks a "." where a length is expected.
WSSocketMessage(s, wellformed) ==
    /\ t_kind = "ws"
    /\ s \in 1..Len(w_sockets)
    /\ w_sockets[s] = "open"
    /\ IF wellformed
       THEN SetTunnel(oninstruction(reset_timeout(TunnelState)))
       ELSE SetTunnel(ws_close_tunnel(reset_timeout(TunnelState), SERVER_ERROR))
    /\ UNCHANGED <<t_kind, t_connects, t_msgState, h_connectPending, readvars>>
    /\ UNCHANGED others_T

\* The function given to setTimeout by reset_timeout runs (WebSocketTunnel).
WSTimeout ==
    /\ t_kind = "ws"
    /\ t_timer
    /\ SetTunnel(ws_close_tunnel([TunnelState EXCEPT !.timer = FALSE], UPSTREAM_TIMEOUT))
    /\ UNCHANGED <<t_kind, t_connects, t_msgState, h_connectPending, readvars>>
    /\ UNCHANGED others_T

\* WebSocketTunnel.disconnect()
WSDisconnect ==
    /\ t_kind = "ws"
    /\ SetTunnel(ws_close_tunnel(TunnelState, SUCCESS))
    /\ UNCHANGED <<t_kind, t_connects, t_msgState, h_connectPending, readvars>>
    /\ UNCHANGED others_T

\* WebSocketTunnel.sendMessage(elements...) with at least one element
WSSendMessage ==
    /\ t_kind = "ws"
    /\ Len(t_msgState) < MaxMessages
    /\ t_msgState' = Append(t_msgState, t_state)
    /\ SetTunnel(ws_sendMessage(TunnelState, Len(t_msgState) + 1))
    /\ UNCHANGED <<t_kind, t_connects, h_connectPending, readvars>>
    /\ UNCHANGED others_T

\* ---- HTTPTunnel ----

\* HTTPTunnel.connect(data)
HTTPConnect ==
    /\ t_kind = "http"
    /\ t_connects < MaxTunnelConnects
    /\ t_connects' = t_connects + 1
    /\ h_connectPending' = h_connectPending + 1
    /\ SetTunnel(reset_timeout(TunnelState))
    /\ UNCHANGED <<t_kind, t_msgState, readvars>>
    /\ UNCHANGED others_T

\* connect_xmlhttprequest.onreadystatechange at readyState 4: status 200
\* (ok), or another status whose Guacamole-Status-Code header is code.
HTTPConnectResponse(ok, code) ==
    /\ t_kind = "http"
    /\ h_connectPending > 0
    /\ h_connectPending' = h_connectPending - 1
    /\ IF ok
       THEN /\ SetTunnel(onstatechange([reset_timeout(TunnelState) EXCEPT !.state = OPEN],
                                       t_state, OPEN, SUCCESS))
            /\ h_reading' = TRUE
            /\ h_wrapped' = h_pollingMode
            /\ h_dataUpdateEvents' = 0
            /\ h_interval' = FALSE
            /\ UNCHANGED h_pollingMode
       ELSE /\ SetTunnel(http_close_tunnel(TunnelState, code))
            /\ UNCHANGED readvars
    /\ UNCHANGED <<t_kind, t_connects, t_msgState>>
    /\ UNCHANGED others_T

\* HTTPTunnel.disconnect()
HTTPDisconnect ==
    /\ t_kind = "http"
    /\ SetTunnel(http_close_tunnel(TunnelState, SUCCESS))
    /\ UNCHANGED <<t_kind, t_connects, t_msgState, h_connectPending, readvars>>
    /\ UNCHANGED others_T

\* The function given to setTimeout by reset_timeout runs (HTTPTunnel).
HTTPTimeout ==
    /\ t_kind = "http"
    /\ t_timer
    /\ SetTunnel(http_close_tunnel([TunnelState EXCEPT !.timer = FALSE], UPSTREAM_TIMEOUT))
    /\ UNCHANGED <<t_kind, t_connects, t_msgState, h_connectPending, readvars>>
    /\ UNCHANGED others_T

\* HTTPTunnel.sendMessage(elements...) with at least one element
HTTPSendMessage ==
    /\ t_kind = "http"
    /\ Len(t_msgState) < MaxMessages
    /\ t_msgState' = Append(t_msgState, t_state)
    /\ SetTunnel(http_sendMessage(TunnelState, Len(t_msgState) + 1))
    /\ UNCHANGED <<t_kind, t_connects, h_connectPending, readvars>>
    /\ UNCHANGED others_T

\* message_xmlhttprequest.onreadystatechange at readyState 4 for write POST
\* p: status 200 (ok), or an error status with the given status code header.
HTTPPostComplete(p, ok, code) ==
    /\ t_kind = "http"
    /\ p \in 1..Len(h_posts)
    /\ ~h_posts[p].done
    /\ LET ts == [TunnelState EXCEPT !.posts[p].done = TRUE] IN
       IF ok THEN SetTunnel(sendPendingMessages(ts))
       ELSE SetTunnel(http_close_tunnel(ts, code))
    /\ UNCHANGED <<t_kind, t_connects, t_msgState, h_connectPending, readvars>>
    /\ UNCHANGED others_T

\* The read request's onreadystatechange fires at readyState rs (3 or 4): the
\* polling-detection wrapper, when installed, counts the readyState 3 events
\* and at the second one disables polling and installs parseResponse itself;
\* then parseResponse runs: on a tunnel that is not OPEN it clears the
\* interval, otherwise it starts one when polling is enabled, the request is
\* at readyState 3 and none is set.
onreadystatechange_read(rs) ==
    LET counted  == h_wrapped /\ rs = 3
        events   == IF counted THEN h_dataUpdateEvents + 1 ELSE h_dataUpdateEvents
        disabled == counted /\ events >= 2
        mode     == h_pollingMode /\ ~disabled
    IN  /\ h_dataUpdateEvents' = events
        /\ h_pollingMode' = mode
        /\ h_wrapped' = (h_wrapped /\ ~disabled)
        /\ h_interval' = IF t_state # OPEN THEN FALSE
                         ELSE (h_interval \/ (mode /\ rs = 3))
        /\ UNCHANGED h_reading

\* parseResponse of a read request at readyState rs (3 or 4) with status 200
\* and one more complete instruction in responseText. Nothing is parsed
\* unless the tunnel is OPEN.
HTTPReadData(rs) ==
    /\ t_kind = "http"
    /\ h_reading
    /\ onreadystatechange_read(rs)
    /\ IF t_state # OPEN
       THEN SetTunnel(TunnelState)
       ELSE SetTunnel(oninstruction(reset_timeout(TunnelState)))
    /\ UNCHANGED <<t_kind, t_connects, t_msgState, h_connectPending>>
    /\ UNCHANGED others_T

\* parseResponse of a read request at readyState rs (3 or 4) whose status is
\* 0 (canceled: tunnel.disconnect()) or an error status with the given
\* Guacamole-Status-Code. Nothing happens unless the tunnel is OPEN.
HTTPReadError(rs, canceled, code) ==
    /\ t_kind = "http"
    /\ h_reading
    /\ onreadystatechange_read(rs)
    /\ IF t_state # OPEN
       THEN SetTunnel(TunnelState)
       ELSE SetTunnel(http_close_tunnel(reset_timeout(TunnelState),
                                        IF canceled THEN SUCCESS ELSE code))
    /\ UNCHANGED <<t_kind, t_connects, t_msgState, h_connectPending>>
    /\ UNCHANGED others_T

\* The interval set by parseResponse fires: parseResponse runs on the read
\* request, which is still at readyState 3 with status 200 and whose
\* responseText holds nothing that was not parsed before.
HTTPPoll ==
    /\ t_kind = "http"
    /\ h_interval
    /\ IF t_state # OPEN
       THEN /\ SetTunnel(TunnelState)
            /\ h_interval' = FALSE
       ELSE /\ SetTunnel(reset_timeout(TunnelState))
            /\ UNCHANGED h_interval
    /\ UNCHANGED <<h_reading, h_pollingMode, h_wrapped, h_dataUpdateEvents>>
    /\ UNCHANGED <<t_kind, t_connects, t_msgState, h_connectPending>>
    /\ UNCHANGED others_T

\* The status codes a failing connection reports.
ErrorCodes == {SERVER_ERROR, RESOURCE_NOT_FOUND}

NextWS ==
    \/ WSConnect
    \/ \E s \in 1..MaxTunnelConnects : WSSocketOpen(s)
    \/ \E s \in 1..MaxTunnelConnects : \E code \in {SUCCESS, SERVER_ERROR} : WSSocketClose(s, code)
    \/ \E s \in 1..MaxTunnelConnects : WSSocketError(s, SERVER_ERROR)
    \/ \E s \in 1..MaxTunnelConnects : \E wf \in BOOLEAN : WSSocketMessage(s, wf)
    \/ WSTimeout
    \/ WSDisconnect
    \/ WSSendMessage

NextHTTP ==
    \/ HTTPConnect
    \/ \E ok \in BOOLEAN : \E code \in ErrorCodes : HTTPConnectResponse(ok, code)
    \/ HTTPDisconnect
    \/ HTTPTimeout
    \/ HTTPSendMessage
    \/ \E p \in 1..MaxMessages : \E ok \in BOOLEAN : \E code \in ErrorCodes : HTTPPostComplete(p, ok, code)
    \/ \E rs \in {3, 4} : HTTPReadData(rs)
    \/ \E rs \in {3, 4} : \E canceled \in BOOLEAN : \E code \in ErrorCodes :
          HTTPReadError(rs, canceled, code)
    \/ HTTPPoll

NextTunnel == NextWS \/ NextHTTP

\* The tunnels with a server that leaves every read request of an HTTPTunnel
\* unanswered: connecting, closing and sending.
NextSend ==
    \/ NextWS
    \/ HTTPConnect
    \/ \E ok \in BOOLEAN : \E code \in ErrorCodes : HTTPConnectResponse(ok, code)
    \/ HTTPDisconnect
    \/ HTTPTimeout
    \/ HTTPSendMessage
    \/ \E p \in 1..MaxMessages : \E ok \in BOOLEAN : \E code \in ErrorCodes : HTTPPostComplete(p, ok, code)

\* The tunnels with a consumer that never calls sendMessage: connecting,
\* closing and receiving.
NextReceive ==
    \/ WSConnect
    \/ \E s \in 1..MaxTunnelConnects : WSSocketOpen(s)
    \/ \E s \in 1..MaxTunnelConnects : \E code \in {SUCCESS, SERVER_ERROR} : WSSocketClose(s, code)
    \/ \E s \in 1..MaxTunnelConnects : WSSocketError(s, SERVER_ERROR)
    \/ \E s \in 1..MaxTunnelConnects : \E wf \in BOOLEAN : WSSocketMessage(s, wf)
    \/ WSTimeout
    \/ WSDisconnect
    \/ HTTPConnect
    \/ \E ok \in BOOLEAN : \E code \in ErrorCodes : HTTPConnectResponse(ok, code)
    \/ HTTPDisconnect
    \/ HTTPTimeout
    \/ \E rs \in {3, 4} : HTTPReadData(rs)
    \/ \E rs \in {3, 4} : \E canceled \in BOOLEAN : \E code \in ErrorCodes :
          HTTPReadError(rs, canceled, code)
    \/ HTTPPoll

DisplayInit ==
    /\ tasks = <<>>
    /\ frames = <<>>
    /\ blocked = <<>>
    /\ executed = <<>>
    /\ flushed = <<>>
    /\ startBlocked = <<>>

\* scheduleTask(handler, blocked), called once for each element of bs in order
scheduleTasks(bs) ==
    /\ tasks' = tasks \o [i \in 1..Len(bs) |-> Len(blocked) + i]
    /\ blocked' = blocked \o bs
    /\ startBlocked' = startBlocked \o bs
    /\ UNCHANGED <<frames, executed, flushed>>

\* scheduleTask(handler, blocked)
ScheduleTask(b) ==
    /\ Len(blocked) < MaxTasks
    /\ scheduleTasks(<<b>>)
    /\ UNCHANGED others_D

\* Display.flush(callback): what it does to the display.
display_flush(cb) ==
    /\ LET frame == [id |-> Len(flushed) + 1, tasks |-> tasks, callback |-> cb]
           r == flush_frames(Append(frames, frame), blocked)
       IN  /\ flushed' = Append(flushed, frame)
           /\ frames' = r.frames
           /\ executed' = executed \o r.calls
    /\ tasks' = <<>>
    /\ UNCHANGED <<blocked, startBlocked>>

\* Display.flush(callback)
Flush(cb) ==
    /\ Len(flushed) < MaxFrames
    /\ display_flush(cb)
    /\ UNCHANGED others_D

\* Task.unblock() clearing the flag without looking at the frame queue.
task_unblock_noFlush(t) ==
    /\ blocked' = [blocked EXCEPT ![t] = FALSE]
    /\ UNCHANGED <<frames, executed>>
    /\ UNCHANGED <<tasks, flushed, startBlocked>>

\* Task.unblock(): what it does to the display.
task_unblock(t) ==
    /\ IF blocked[t]
       THEN LET bl == [blocked EXCEPT ![t] = FALSE]
                r == flush_frames(frames, bl)
            IN  /\ blocked' = bl
                /\ frames' = r.frames
                /\ executed' = executed \o r.calls
       ELSE UNCHANGED <<blocked, frames, executed>>
    /\ UNCHANGED <<tasks, flushed, startBlocked>>

\* Task.unblock()
Unblock(t) ==
    /\ t \in 1..Len(blocked)
    /\ task_unblock(t)
    /\ UNCHANGED others_D

NextDisplay ==
    \/ \E b \in BOOLEAN : ScheduleTask(b)
    \/ \E cb \in BOOLEAN : Flush(cb)
    \/ \E t \in 1..MaxTasks : Unblock(t)

(***************************************************************************)
(* Display: frame callbacks that call Display.flush.                       *)
(*                                                                         *)
(* The display is a record d of tasks, frames, blocked, executed, flushed  *)
(* and done, the frames whose callback has called Display.flush. R is the  *)
(* set of frames whose callback calls Display.flush() when it is invoked   *)
(* for the first time; every other callback, and every task handler,       *)
(* leaves the display alone. The calls nest as in the source: the loop of  *)
(* __flush_frames goes on after Frame.flush returns, on the frames array   *)
(* the nested calls have changed.                                          *)
(***************************************************************************)
RECURSIVE reentrant_flush_frames(_, _, _)
RECURSIVE reentrant_FrameFlush(_, _, _)

\* Display.flush(callback) on d.
reentrant_flush(d, cb, R) ==
    LET frame == [id |-> Len(d.flushed) + 1, tasks |-> d.tasks, callback |-> cb]
    IN  reentrant_flush_frames([d EXCEPT !.frames = Append(@, frame),
                                         !.flushed = Append(@, frame),
                                         !.tasks = <<>>],
                               0, R)

\* Frame.flush of `frame`: the tasks execute, then the callback is called.
reentrant_FrameFlush(d, frame, R) ==
    LET drawn == [d EXCEPT !.executed =
                     @ \o [i \in 1..Len(frame.tasks) |-> [kind |-> "task", task |-> frame.tasks[i]]]]
        called == [drawn EXCEPT !.executed = Append(@, [kind |-> "callback", frame |-> frame.id])]
    IN  IF ~frame.callback THEN drawn
        ELSE IF frame.id \in R /\ frame.id \notin d.done
        THEN reentrant_flush([called EXCEPT !.done = @ \cup {frame.id}], FALSE, R)
        ELSE called

\* __flush_frames from "while (rendered_frames < frames.length)" on, with
\* the local variable rendered_frames.
reentrant_flush_frames(d, rendered_frames, R) ==
    IF rendered_frames < Len(d.frames) /\ isReady(d.frames[rendered_frames + 1], d.blocked)
    THEN reentrant_flush_frames(reentrant_FrameFlush(d, d.frames[rendered_frames + 1], R),
                                rendered_frames + 1, R)
    ELSE \* frames.splice(0, rendered_frames)
         [d EXCEPT !.frames = IF rendered_frames >= Len(@) THEN <<>>
                               ELSE SubSeq(@, rendered_frames + 1, Len(@))]

DisplayState ==
    [ tasks |-> tasks, frames |-> frames, blocked |-> blocked, executed |-> executed,
      flushed |-> flushed, done |-> re_done ]

SetDisplay(d) ==
    /\ tasks' = d.tasks
    /\ frames' = d.frames
    /\ blocked' = d.blocked
    /\ executed' = d.executed
    /\ flushed' = d.flushed
    /\ re_done' = d.done
    /\ UNCHANGED startBlocked

ReentryInit ==
    /\ re_frames = {}
    /\ re_done = {}

\* Display.flush(callback); `calls` says that the callback calls
\* Display.flush() the first time it is invoked.
ReentrantFlush(cb, calls) ==
    /\ Len(flushed) + (IF calls THEN 1 ELSE 0) < MaxFrames
    /\ calls => cb
    /\ re_frames' = IF calls THEN re_frames \cup {Len(flushed) + 1} ELSE re_frames
    /\ SetDisplay(reentrant_flush(DisplayState, cb, re_frames'))
    /\ UNCHANGED others_E

\* Task.unblock()
ReentrantUnblock(t) ==
    /\ t \in 1..Len(blocked)
    /\ IF blocked[t]
       THEN SetDisplay(reentrant_flush_frames(
                [DisplayState EXCEPT !.blocked[t] = FALSE], 0, re_frames))
       ELSE UNCHANGED <<dvars, re_done>>
    /\ UNCHANGED re_frames
    /\ UNCHANGED others_E

NextReentrant ==
    \/ \E b \in BOOLEAN : ScheduleTask(b)
    \/ \E cb, calls \in BOOLEAN : ReentrantFlush(cb, calls)
    \/ \E t \in 1..MaxTasks : ReentrantUnblock(t)

(***************************************************************************)
(* Parser and the tunnels' instruction encoder.                            *)
(*                                                                         *)
(* A JavaScript string is a sequence of UTF-16 code units, each written as *)
(* a one-element name: "a", "1", ".", and "U4E16" for the code unit of     *)
(* U+4E16. Positions in strings are counted from 0 as in the source. The   *)
(* parser's private variables are the fields of a record ps; `thrown` says *)
(* that the call of receive ended by throwing.                             *)
(***************************************************************************)
Digits == <<"0", "1", "2", "3", "4", "5", "6", "7", "8", "9">>

IsDigit(c) == \E d \in 1..10 : Digits[d] = c

DigitValue(c) == (CHOOSE d \in 1..10 : Digits[d] = c) - 1

\* Number to string conversion (string.length + "."): decimal digits.
RECURSIVE NumberToString(_)
NumberToString(n) ==
    IF n < 10 THEN <<Digits[n + 1]>>
    ELSE NumberToString(n \div 10) \o <<Digits[(n % 10) + 1]>>

\* The number of leading decimal digits of string s.
RECURSIVE LeadingDigits(_)
LeadingDigits(s) ==
    IF s # <<>> /\ IsDigit(Head(s)) THEN 1 + LeadingDigits(Tail(s)) ELSE 0

RECURSIVE DigitsValue(_)
DigitsValue(s) ==
    IF s = <<>> THEN 0
    ELSE 10 * DigitsValue(SubSeq(s, 1, Len(s) - 1)) + DigitValue(s[Len(s)])

\* parseInt(s) for a string of digits, letters and punctuation: the value of
\* the leading digits, NaN when there is none.
parseInt(s) ==
    IF LeadingDigits(s) = 0 THEN NaN
    ELSE DigitsValue(SubSeq(s, 1, LeadingDigits(s)))

\* a + b and a < b on numbers that may be NaN.
Plus(a, b) == IF a = NaN \/ b = NaN THEN NaN ELSE a + b
Less(a, b) == a # NaN /\ b # NaN /\ a < b
GreaterEq(a, b) == a # NaN /\ b # NaN /\ a >= b

Min(a, b) == IF a < b THEN a ELSE b
Max(a, b) == IF a > b THEN a ELSE b

\* s.substring(a, b): both ends are clamped to 0..s.length and swapped when
\* a > b.
substring(s, a, b) ==
    LET ca == Max(0, Min(a, Len(s)))
        cb == Max(0, Min(b, Len(s)))
    IN  SubSeq(s, Min(ca, cb) + 1, Max(ca, cb))

\* s.indexOf(c, from): the first position at or after from holding c, or -1.
indexOf(s, c, from) ==
    LET found == { i \in Max(0, from)..(Len(s) - 1) : s[i + 1] = c }
    IN  IF found = {} THEN -1
        ELSE CHOOSE i \in found : \A j \in found : i <= j

\* getElement(value) of sendMessage (both tunnels) for a string value.
getElement_offByOne(string) == NumberToString(Len(string) + 1) \o <<".">> \o string

getElement(string) == NumberToString(Len(string)) \o <<".">> \o string

\* The message sendMessage builds for the elements given to it (at least
\* one): elements joined by ",", ended by ";".
RECURSIVE JoinElements(_)
JoinElements(elements) ==
    IF Len(elements) = 1 THEN getElement(elements[1])
    ELSE JoinElements(SubSeq(elements, 1, Len(elements) - 1))
             \o <<",">> \o getElement(elements[Len(elements)])

Message(elements) == JoinElements(elements) \o <<";">>

\* An instruction is a record [opcode, elements]; what the encoder sends for
\* a sequence of instructions, one sendMessage call each.
RECURSIVE Encode(_)
Encode(instructions) ==
    IF instructions = <<>> THEN <<>>
    ELSE Message(<<Head(instructions).opcode>> \o Head(instructions).elements)
             \o Encode(Tail(instructions))

\* The truncation step of receive without rebasing element_end.
truncate_noRebase(ps) ==
    [ps EXCEPT !.buffer = substring(ps.buffer, ps.start_index, Len(ps.buffer)),
               !.start_index = 0,
               !.truncations = @ + 1]

\* The truncation step of receive: drop the consumed prefix, rebase indices.
truncate(ps) ==
    [ps EXCEPT !.buffer = substring(ps.buffer, ps.start_index, Len(ps.buffer)),
               !.element_end = ps.element_end - ps.start_index,
               !.start_index = 0,
               !.truncations = @ + 1]

\* The body of "if (element_end >= start_index)": an element is complete.
ParseElement(ps) ==
    LET element    == substring(ps.buffer, ps.start_index, ps.element_end)
        terminator == substring(ps.buffer, ps.element_end, ps.element_end + 1)
        pushed     == Append(ps.element_buffer, element)
    IN  IF terminator = <<";">>
        THEN [ps EXCEPT !.emitted = Append(@, [opcode |-> Head(pushed),
                                            elements |-> Tail(pushed)]),
                        !.element_buffer = <<>>,
                        !.start_index = ps.element_end + 1]
        ELSE IF terminator # <<",">>
        THEN [ps EXCEPT !.element_buffer = pushed,
                        !.thrown = TRUE,
                        !.error = "Illegal terminator."]
        ELSE [ps EXCEPT !.element_buffer = pushed,
                        !.start_index = ps.element_end + 1]

\* The while loop of receive. "length == NaN" is false for every length, so
\* the second throw statement is never reached.
RECURSIVE ParseLoop(_)
ParseLoop(ps) ==
    IF ~Less(ps.element_end, Len(ps.buffer)) THEN ps
    ELSE LET a == IF GreaterEq(ps.element_end, ps.start_index)
                  THEN ParseElement(ps) ELSE ps
             length_end == indexOf(a.buffer, ".", a.start_index)
             length == parseInt(substring(a.buffer, a.element_end + 1, length_end))
         IN  IF a.thrown THEN a
             ELSE IF length_end # -1
             THEN ParseLoop([a EXCEPT !.start_index = length_end + 1,
                                      !.element_end = Plus(length_end + 1, length)])
             ELSE [a EXCEPT !.start_index = Len(a.buffer)]

\* Parser.receive(packet)
receive(ps, packet) ==
    LET ps0 == [ps EXCEPT !.thrown = FALSE]
        ps1 == IF ps0.start_index > TruncateAbove /\ GreaterEq(ps0.element_end, ps0.start_index)
               THEN truncate(ps0) ELSE ps0
    IN  ParseLoop([ps1 EXCEPT !.buffer = @ \o packet])

\* A Parser right after construction.
NewParser ==
    [ buffer |-> <<>>, element_buffer |-> <<>>, element_end |-> -1, start_index |-> 0,
      emitted |-> <<>>, thrown |-> FALSE, error |-> "", truncations |-> 0 ]

ParserState ==
    [ buffer |-> p_buffer, element_buffer |-> p_element_buffer,
      element_end |-> p_element_end, start_index |-> p_start_index,
      emitted |-> p_emitted, thrown |-> FALSE, error |-> p_error,
      truncations |-> p_truncations ]

\* The instructions the streams of the model are made of.
SampleInstructions ==
    { [opcode |-> <<"a">>, elements |-> <<>>],
      [opcode |-> <<>>, elements |-> << <<>> >>],
      [opcode |-> <<"a", "b">>, elements |-> << <<"1", ".">>, <<";", ",">> >>],
      [opcode |-> <<"U4E16">>, elements |-> << <<"a">> >>] }

\* An instruction whose opcode is LongElement characters long.
LongInstruction == [opcode |-> [i \in 1..LongElement |-> "a"], elements |-> <<>>]

SeqsUpTo(S, n) == UNION { [1..k -> S] : k \in 0..n }

\* The instruction sequences whose encoding the parser is given: up to
\* MaxStream sample instructions, or the long instruction followed by two
\* sample instructions.
Streams ==
    SeqsUpTo(SampleInstructions, MaxStream)
        \cup { <<LongInstruction, a, b>> : a, b \in SampleInstructions }

\* The lengths the next packet may have when `remaining` characters of the
\* stream are still to come: any, once no more than LongPacket remain.
PacketLengths(remaining) ==
    IF remaining > LongPacket THEN {LongPacket} ELSE 1..remaining

ParserInit ==
    /\ p_instructions \in Streams
    /\ p_input = Encode(p_instructions)
    /\ p_fed = 0
    /\ p_packets = 0
    /\ p_buffer = NewParser.buffer
    /\ p_element_buffer = NewParser.element_buffer
    /\ p_element_end = NewParser.element_end
    /\ p_start_index = NewParser.start_index
    /\ p_emitted = <<>>
    /\ p_error = ""
    /\ p_truncations = 0

\* Elements that are not well formed: a length that starts with a letter,
\* a length with a letter after a digit, and a character other than "," and
\* ";" after the element (a colon; the second character of a longer value;
\* a colon after a second element).
MalformedElements ==
    { <<"x", ".", "a", ";">>,
      <<"1", "x", ".", "a", ";">>,
      <<"1", ".", "a", ":">>,
      <<"1", ".", "a", "b", ";">>,
      <<"1", ".", "a", ",", "1", ".", "b", ":">> }

\* The parser is given well-formed instructions, then a malformed element,
\* then perhaps a well-formed instruction.
MalformedInit ==
    /\ p_instructions \in SeqsUpTo({[opcode |-> <<"a">>, elements |-> <<>>]}, MaxStream)
    /\ p_input \in { Encode(p_instructions) \o bad \o rest :
                        bad \in MalformedElements,
                        rest \in {<<>>, <<"1", ".", "b", ";">>} }
    /\ p_fed = 0
    /\ p_packets = 0
    /\ p_buffer = NewParser.buffer
    /\ p_element_buffer = NewParser.element_buffer
    /\ p_element_end = NewParser.element_end
    /\ p_start_index = NewParser.start_index
    /\ p_emitted = <<>>
    /\ p_error = ""
    /\ p_truncations = 0

\* The streams given to the parser one whole instruction per packet, as a
\* sender that writes an instruction at a time makes them.
AlignedKinds ==
    { LongInstruction,
      [opcode |-> <<"a">>, elements |-> <<>>],
      [opcode |-> <<"U4E16">>, elements |-> << <<"a">> >>] }

AlignedInit ==
    /\ p_instructions \in [1..AlignedInstructions -> AlignedKinds]
    /\ p_input = Encode(p_instructions)
    /\ p_fed = 0
    /\ p_packets = 0
    /\ p_buffer = NewParser.buffer
    /\ p_element_buffer = NewParser.element_buffer
    /\ p_element_end = NewParser.element_end
    /\ p_start_index = NewParser.start_index
    /\ p_emitted = <<>>
    /\ p_error = ""
    /\ p_truncations = 0

\* The parser is given nothing.
ParserIdle == ParserInit /\ p_instructions = <<>>

SetParser(ps) ==
    /\ p_buffer' = ps.buffer
    /\ p_element_buffer' = ps.element_buffer
    /\ p_element_end' = ps.element_end
    /\ p_start_index' = ps.start_index
    /\ p_emitted' = ps.emitted
    /\ p_error' = ps.error
    /\ p_truncations' = ps.truncations

\* parser.receive(packet) with the next n characters of the stream.
Receive(n) ==
    /\ n \in PacketLengths(Len(p_input) - p_fed)
    /\ SetParser(receive(ParserState, SubSeq(p_input, p_fed + 1, p_fed + n)))
    /\ p_fed' = p_fed + n
    /\ p_packets' = p_packets + 1
    /\ UNCHANGED <<p_instructions, p_input>>
    /\ UNCHANGED others_P

NextParser == \E n \in 1..(LongPacket + 1) : Receive(n)

\* parser.receive(packet) with the whole next instruction of the stream.
ReceiveInstruction ==
    /\ p_packets < Len(p_instructions)
    /\ LET n == Len(Encode(<<p_instructions[p_packets + 1]>>))
       IN  /\ SetParser(receive(ParserState, SubSeq(p_input, p_fed + 1, p_fed + n)))
           /\ p_fed' = p_fed + n
    /\ p_packets' = p_packets + 1
    /\ UNCHANGED <<p_instructions, p_input>>
    /\ UNCHANGED others_P

NextAligned == ReceiveInstruction

(***************************************************************************)
(* WebSocketTunnel: socket.onmessage.                                      *)
(*                                                                         *)
(* The local variables of the handler are the fields of a record m:        *)
(* startIndex, elementEnd (NaN while it is undefined: undefined + 1 is     *)
(* NaN, and substring takes an undefined start for 0), defined (elementEnd *)
(* was assigned), elements; with the histories delivered, closed, and      *)
(* visited, the values of <<startIndex, elementEnd>> at the start of the   *)
(* iterations so far. What an iteration does is determined by the message  *)
(* and these two values, so the loop never ends once a pair comes again.   *)
(***************************************************************************)
\* One iteration of the do-while loop, up to "startIndex = elementEnd + 1".
MessageIteration(m, message) ==
    LET lengthEnd == indexOf(message, ".", m.startIndex)
        length == parseInt(substring(message, Plus(m.elementEnd, 1), lengthEnd))
        a == IF lengthEnd # -1
             THEN [m EXCEPT !.startIndex = lengthEnd + 1,
                            !.elementEnd = Plus(lengthEnd + 1, length),
                            !.defined = TRUE]
             ELSE [m EXCEPT !.closed = TRUE]
        element == IF a.defined THEN substring(message, a.startIndex, a.elementEnd)
                   ELSE substring(message, a.startIndex, Len(message))
        terminator == substring(message, a.elementEnd, Plus(a.elementEnd, 1))
        pushed == Append(a.elements, element)
    IN  IF terminator = <<";">>
        THEN [a EXCEPT !.delivered = Append(@, [opcode |-> Head(pushed),
                                                elements |-> Tail(pushed)]),
                       !.elements = <<>>,
                       !.startIndex = Plus(a.elementEnd, 1)]
        ELSE [a EXCEPT !.elements = pushed,
                       !.startIndex = Plus(a.elementEnd, 1)]

\* The do-while loop of socket.onmessage.
RECURSIVE MessageLoop(_, _)
MessageLoop(m, message) ==
    IF <<m.startIndex, m.elementEnd>> \in m.visited THEN [m EXCEPT !.hangs = TRUE]
    ELSE LET a == MessageIteration(
                      [m EXCEPT !.visited = @ \cup {<<m.startIndex, m.elementEnd>>}], message)
         IN  IF Less(a.startIndex, Len(message)) THEN MessageLoop(a, message) ELSE a

\* socket.onmessage(event) with event.data = message.
onmessage(message) ==
    MessageLoop([ startIndex |-> 0, elementEnd |-> NaN, defined |-> FALSE,
                  elements |-> <<>>, delivered |-> <<>>, closed |-> FALSE,
                  visited |-> {}, hangs |-> FALSE ],
                message)

\* The instructions of the messages.
MessageInstructions ==
    { [opcode |-> <<"a">>, elements |-> <<>>],
      [opcode |-> <<"a", "b">>, elements |-> << <<"c">> >>],
      [opcode |-> <<"U4E16">>, elements |-> << <<>>, <<"a">> >>] }

\* What follows the instructions in a message: nothing, or characters in
\* which the "." that ends a length is missing.
MessageTails ==
    { <<>>,
      <<"x">>,
      <<"1">>,
      <<"1", "a", ";">>,
      <<"1", ".", "a", ",", "x">>,
      <<"1", ".", "a", ",", "1", "b", ";">> }

MessageInit ==
    /\ wm_instructions \in SeqsUpTo(MessageInstructions, MaxStream)
    /\ wm_tail \in MessageTails
    /\ wm_called = FALSE
    /\ wm_delivered = <<>>
    /\ wm_closed = FALSE
    /\ wm_hangs = FALSE

\* No message is received.
MessageIdle == MessageInit /\ wm_instructions = <<>> /\ wm_tail = <<>>

\* socket.onmessage is called with the message.
OnMessage ==
    /\ ~wm_called
    /\ wm_called' = TRUE
    /\ LET m == onmessage(Encode(wm_instructions) \o wm_tail)
       IN  /\ wm_delivered' = m.delivered
           /\ wm_closed' = m.closed
           /\ wm_hangs' = m.hangs
    /\ UNCHANGED <<wm_instructions, wm_tail>>
    /\ UNCHANGED others_M

NextMessage == OnMessage

(***************************************************************************)
(* HTTPTunnel: the chain of read requests (handleResponse, makeRequest).   *)
(*                                                                         *)
(* The read requests are numbered 1, 2, ... in the order makeRequest made  *)
(* them. A request is a record of the XMLHttpRequest (readyState, status,  *)
(* the response text the server sends and the number of its characters     *)
(* received so far, handler: what onreadystatechange is) and of the        *)
(* variables of the handleResponse call made for it (interval,             *)
(* nextRequest, dataUpdateEvents, elementEnd, startIndex, elements).       *)
(* interval says that the variable is not null, timer that the interval it *)
(* names is running (set and not cleared). madeBy is the request whose     *)
(* parseResponse made this one (0: connect), terminated that a zero length *)
(* ended the response. The                                                 *)
(* rest of the tunnel is seen through tunnel.state. The record h holds     *)
(* tunnel.state, pollingMode, request_id and the requests, with the        *)
(* histories of the step. tunnel.oninstruction is set.                     *)
(***************************************************************************)
NewRequest(id, madeBy) ==
    [ id |-> id, madeBy |-> madeBy,
      readyState |-> 1, status |-> 0, text |-> <<>>, received |-> 0,
      handler |-> "none",
      interval |-> FALSE, timer |-> FALSE, nextRequest |-> 0, dataUpdateEvents |-> 0,
      elementEnd |-> -1, startIndex |-> 0, elements |-> <<>>,
      terminated |-> FALSE ]

\* makeRequest(), called for request madeBy (0: by connect): the new request
\* is the last of h.requests.
makeRequest(h, madeBy) ==
    [h EXCEPT !.requests = Append(@, NewRequest(h.request_id, madeBy)),
              !.request_id = @ + 1]

\* close_tunnel(status), as far as the read requests see it.
read_close_tunnel(h) == [h EXCEPT !.state = CLOSED]

\* The body of "if (elementEnd >= startIndex)" in parseResponse of request r.
ResponseElement(h, r) ==
    LET q          == h.requests[r]
        current    == SubSeq(q.text, 1, q.received)
        element    == substring(current, q.startIndex, q.elementEnd)
        terminator == substring(current, q.elementEnd, q.elementEnd + 1)
        pushed     == Append(q.elements, element)
    IN  IF terminator = <<";">>
        THEN [h EXCEPT !.new = Append(@, [request |-> r, opcode |-> Head(pushed),
                                          elements |-> Tail(pushed)]),
                       !.requests[r].elements = <<>>,
                       !.requests[r].startIndex = q.elementEnd + 1]
        ELSE [h EXCEPT !.requests[r].elements = pushed,
                       !.requests[r].startIndex = q.elementEnd + 1]

RECURSIVE parseResponse(_, _)
RECURSIVE handleResponse(_, _)
RECURSIVE ResponseLoop(_, _)

\* "if (length === 0)" in parseResponse of request r: clearInterval is called
\* only when interval is null, so a running timer keeps running; the
\* request is aborted (readyState 0, no more events) and the next request,
\* if any, is handled.
EndOfResponse(h, r) ==
    LET t == [h EXCEPT !.requests[r].handler = "null",
                       !.requests[r].readyState = 0,
                       !.requests[r].terminated = TRUE]
    IN  IF h.requests[r].nextRequest # 0
        THEN handleResponse(t, h.requests[r].nextRequest)
        ELSE t

\* The while loop of parseResponse of request r.
ResponseLoop(h, r) ==
    LET current == SubSeq(h.requests[r].text, 1, h.requests[r].received) IN
    IF ~Less(h.requests[r].elementEnd, Len(current)) THEN h
    ELSE LET a == IF GreaterEq(h.requests[r].elementEnd, h.requests[r].startIndex)
                  THEN ResponseElement(h, r) ELSE h
             q == a.requests[r]
             lengthEnd == indexOf(current, ".", q.startIndex)
             length == parseInt(substring(current, q.elementEnd + 1, lengthEnd))
         IN  IF lengthEnd # -1
             THEN IF length = 0
                  THEN EndOfResponse(a, r)
                  ELSE ResponseLoop([a EXCEPT !.requests[r].startIndex = lengthEnd + 1,
                                              !.requests[r].elementEnd = Plus(lengthEnd + 1, length)],
                                    r)
             ELSE [a EXCEPT !.requests[r].startIndex = Len(current)]

\* parseResponse() of the handleResponse call made for request r.
parseResponse(h, r) ==
    LET q == h.requests[r] IN
    IF h.state # OPEN
    THEN IF q.interval THEN [h EXCEPT !.requests[r].timer = FALSE] ELSE h
    ELSE IF q.readyState < 2 THEN h
    ELSE LET h1 == IF q.nextRequest = 0 /\ q.status = 200
                   THEN [makeRequest(h, r) EXCEPT
                            !.requests[r].nextRequest = Len(h.requests) + 1]
                   ELSE h
             starts == h1.pollingMode /\ q.readyState = 3 /\ ~q.interval
             h2 == [h1 EXCEPT !.reset = TRUE,
                              !.requests[r].interval = @ \/ starts,
                              !.requests[r].timer = @ \/ starts]
         IN  IF q.readyState \notin {3, 4} THEN h1
             ELSE IF q.status # 200 THEN read_close_tunnel(h2)
             ELSE ResponseLoop(h2, r)

\* handleResponse(xmlhttprequest) for request r.
handleResponse(h, r) ==
    parseResponse([h EXCEPT !.requests[r].handler =
                               IF h.pollingMode THEN "wrapper" ELSE "parse"], r)

\* xmlhttprequest.onreadystatechange of request r is called.
onreadystatechange(h, r) ==
    LET q == h.requests[r] IN
    IF q.handler = "parse" THEN parseResponse(h, r)
    ELSE IF q.handler = "wrapper"
    THEN IF q.readyState = 3
         THEN LET events == q.dataUpdateEvents + 1
                  h1 == [h EXCEPT !.requests[r].dataUpdateEvents = events]
              IN  IF events >= 2
                  THEN parseResponse([h1 EXCEPT !.pollingMode = FALSE,
                                                !.requests[r].handler = "parse"], r)
                  ELSE parseResponse(h1, r)
         ELSE parseResponse(h, r)
    ELSE h

ReadState ==
    [ state |-> rq_state, pollingMode |-> rq_pollingMode, request_id |-> rq_request_id,
      requests |-> rq_requests, connects |-> rq_connects,
      new |-> <<>>, reset |-> FALSE, event |-> "none" ]

SetRead(h) ==
    /\ rq_state' = h.state
    /\ rq_pollingMode' = h.pollingMode
    /\ rq_request_id' = h.request_id
    /\ rq_requests' = h.requests
    /\ rq_connects' = h.connects
    /\ rq_new' = h.new
    /\ rq_reset' = h.reset
    /\ rq_event' = h.event

ReadInit ==
    /\ rq_state = CONNECTING
    /\ rq_pollingMode = TRUE
    /\ rq_request_id = 0
    /\ rq_requests = <<>>
    /\ rq_connects = 0
    /\ rq_new = <<>>
    /\ rq_reset = FALSE
    /\ rq_event = "none"

\* The response texts of the server: instructions, then the zero length.
SampleResponses ==
    { <<"0", ".", ";">>,
      <<"1", ".", "a", ";", "0", ".", ";">> }

\* The statuses of a read request: 200, 0 for a canceled request, and an
\* error status.
ReadStatuses == {200, 0, 500}

\* connect() on a tunnel that is not open is answered 200: the tunnel is
\* OPEN and handleResponse(makeRequest()) is called.
ReadConnect ==
    /\ rq_state # OPEN
    /\ rq_connects < MaxReadConnects
    /\ LET h0 == [ReadState EXCEPT !.event = "connect", !.connects = @ + 1,
                                   !.state = OPEN, !.reset = TRUE]
           h1 == makeRequest(h0, 0)
       IN  SetRead(handleResponse(h1, Len(h1.requests)))
    /\ UNCHANGED others_Q

\* The tunnel is closed from outside the read requests: disconnect(), the
\* receive timeout, a failed write.
ReadTunnelClosed ==
    /\ rq_state = OPEN
    /\ SetRead(read_close_tunnel([ReadState EXCEPT !.event = "close"]))
    /\ UNCHANGED others_Q

\* Request r receives its response's status line: readyState 2.
ReadHeaders(r, status, text) ==
    /\ r \in 1..Len(rq_requests)
    /\ r <= MaxRequests
    /\ rq_requests[r].readyState = 1
    /\ SetRead(onreadystatechange(
           [ReadState EXCEPT !.event = "headers",
                             !.requests[r].readyState = 2,
                             !.requests[r].status = status,
                             !.requests[r].text = IF status = 200 THEN text ELSE <<>>],
           r))
    /\ UNCHANGED others_Q

\* Request r receives n more characters of its response (readyState 3). The
\* browser calls onreadystatechange when the readyState changes, and for
\* later data only if `fires`.
ReadData(r, n, fires) ==
    /\ r \in 1..Len(rq_requests)
    /\ rq_requests[r].readyState \in {2, 3}
    /\ n \in 1..(Len(rq_requests[r].text) - rq_requests[r].received)
    /\ LET h == [ReadState EXCEPT !.event = "data",
                                  !.requests[r].readyState = 3,
                                  !.requests[r].received = @ + n]
       IN  IF fires \/ rq_requests[r].readyState = 2
           THEN SetRead(onreadystatechange(h, r))
           ELSE SetRead(h)
    /\ UNCHANGED others_Q

\* The response of request r is complete: readyState 4.
ReadDone(r) ==
    /\ r \in 1..Len(rq_requests)
    /\ rq_requests[r].readyState \in {2, 3}
    /\ rq_requests[r].received = Len(rq_requests[r].text)
    /\ SetRead(onreadystatechange(
           [ReadState EXCEPT !.event = "done", !.requests[r].readyState = 4], r))
    /\ UNCHANGED others_Q

\* The interval set by parseResponse of request r fires.
ReadPoll(r) ==
    /\ r \in 1..Len(rq_requests)
    /\ rq_requests[r].timer
    /\ SetRead(parseResponse([ReadState EXCEPT !.event = "poll"], r))
    /\ UNCHANGED others_Q

\* The instructions of the responses checked for delivery: one with an
\* element, one with an empty element, two in one response.
DeliveredSamples ==
    { << [opcode |-> <<"a">>, elements |-> << <<"b">> >>] >>,
      << [opcode |-> <<"a">>, elements |-> << <<>> >>] >>,
      << [opcode |-> <<"a">>, elements |-> <<>>], [opcode |-> <<"b">>, elements |-> <<>>] >> }

\* The response that carries the instructions: their encoding, then the
\* zero length that ends the response.
ResponseOf(instructions) == Encode(instructions) \o <<"0", ".", ";">>

\* One connection whose read requests are answered 200 with instructions.
NextDeliver ==
    \/ ReadConnect
    \/ \E r \in 1..MaxRequests : \E instructions \in DeliveredSamples :
          ReadHeaders(r, 200, ResponseOf(instructions))
    \/ \E r \in 1..MaxRequests : \E n \in 1..MaxChunk : \E fires \in BOOLEAN :
          ReadData(r, n, fires)
    \/ \E r \in 1..MaxRequests : ReadDone(r)
    \/ \E r \in 1..MaxRequests : ReadPoll(r)

NextRead ==
    \/ ReadConnect
    \/ ReadTunnelClosed
    \/ \E r \in 1..MaxRequests : \E status \in ReadStatuses :
          \E text \in SampleResponses : ReadHeaders(r, status, text)
    \/ \E r \in 1..(MaxRequests + 1) : \E n \in 1..MaxChunk : \E fires \in BOOLEAN :
          ReadData(r, n, fires)
    \/ \E r \in 1..(MaxRequests + 1) : ReadDone(r)
    \/ \E r \in 1..(MaxRequests + 1) : ReadPoll(r)

(***************************************************************************)
(* Status.                                                                 *)
(***************************************************************************)
\* Status.isError with the upper limit included in the non-error range's
\* complement one too early.
isError_from255(code) == code < 0 \/ code >= 255

\* Status.isError() of a Status with the given code.
isError(code) == code < 0 \/ code > 255

\* The codes a Status is made with.
StatusCodes == (0 - MaxCode)..MaxCode

StatusInit ==
    /\ s_code \in StatusCodes
    /\ s_isError = <<>>

\* No Status is made.
StatusIdle == StatusInit /\ s_code = 0

\* status = new Status(s_code, message); status.isError()
IsErrorCall ==
    /\ s_isError = <<>>
    /\ s_isError' = <<isError(s_code)>>
    /\ UNCHANGED s_code
    /\ UNCHANGED others_S

NextStatus == IsErrorCall

(***************************************************************************)
(* IntegerPool, and the output streams of the Client.                      *)
(*                                                                         *)
(* The pool is a record [pool, next_int]. The OutputStream objects the     *)
(* client has created are numbered 1, 2, ... in creation order;            *)
(* output_streams maps an index to the number of the stream stored there,  *)
(* or to 0 where the array has no entry. Every stream's onack is set.      *)
(***************************************************************************)
\* IntegerPool.next() never taking an integer back from the pool.
pool_next_fresh(ip) ==
    [ value |-> ip.next_int, ip |-> [ip EXCEPT !.next_int = @ + 1] ]

\* IntegerPool.next(): the integer returned and the pool afterwards.
pool_next(ip) ==
    IF Len(ip.pool) > 0
    THEN [ value |-> Head(ip.pool), ip |-> [ip EXCEPT !.pool = Tail(@)] ]
    ELSE [ value |-> ip.next_int, ip |-> [ip EXCEPT !.next_int = @ + 1] ]

\* IntegerPool.free(integer)
pool_free(ip, integer) == [ip EXCEPT !.pool = Append(@, integer)]

\* The ack handler's test freeing the stream for every error status.
AckInvalidates_isError(code) == isError(code)

\* The ack handler's test "code >= 0x0100".
AckInvalidates(code) == code >= 256

\* The indices an output stream can have in the model.
Indices == 0..(MaxStreams - 1)

\* The status codes of the ack instructions received.
AckCodes == {-1, SUCCESS, 255, 256, SERVER_ERROR}

\* `for` is the OutputStream the server sent an ack for, 0 when the step
\* does not say.
NoEvent ==
    [op |-> "none", index |-> -1, code |-> 0, onack |-> 0, returned |-> -1, for |-> 0]

StreamsInit ==
    /\ k_stream_indices = [pool |-> <<>>, next_int |-> 0]
    /\ k_output_streams = [i \in Indices |-> 0]
    /\ k_index = <<>>
    /\ k_ended = <<>>
    /\ k_invalid = <<>>
    /\ k_freed = -1
    /\ k_event = NoEvent

\* createFileStream, createPipeStream, createClipboardStream or
\* createObjectOutputStream: take an index, store a new OutputStream there.
CreateStream ==
    /\ Len(k_index) < MaxStreams
    /\ LET n == pool_next(k_stream_indices) IN
       /\ k_stream_indices' = n.ip
       /\ k_output_streams' = [k_output_streams EXCEPT ![n.value] = Len(k_index) + 1]
       /\ k_index' = Append(k_index, n.value)
       /\ k_ended' = Append(k_ended, FALSE)
       /\ k_invalid' = Append(k_invalid, FALSE)
       /\ k_freed' = -1
       /\ k_event' = [NoEvent EXCEPT !.op = "create", !.index = n.value,
                                     !.returned = n.value]
    /\ UNCHANGED others_K

\* stream.sendEnd() on the OutputStream numbered s, called once per stream:
\* endStream, then the index is freed and the table entry deleted.
SendEnd(s) ==
    /\ s \in 1..Len(k_index)
    /\ ~k_ended[s]
    /\ k_ended' = [k_ended EXCEPT ![s] = TRUE]
    /\ k_stream_indices' = pool_free(k_stream_indices, k_index[s])
    /\ k_output_streams' = [k_output_streams EXCEPT ![k_index[s]] = 0]
    /\ k_freed' = k_index[s]
    /\ k_event' = [NoEvent EXCEPT !.op = "end", !.index = k_index[s]]
    /\ UNCHANGED <<k_index, k_invalid>>
    /\ UNCHANGED others_K

\* instructionHandlers.ack for "ack,<index>,<reason>,<code>", which the
\* server sent for the OutputStream numbered `for`.
ack(index, code, for) ==
    /\ LET stream == k_output_streams[index] IN
       IF stream # 0
       THEN /\ k_event' = [NoEvent EXCEPT !.op = "ack", !.index = index, !.for = for,
                                          !.code = code, !.onack = stream]
            /\ IF AckInvalidates(code)
               THEN /\ k_stream_indices' = pool_free(k_stream_indices, index)
                    /\ k_output_streams' = [k_output_streams EXCEPT ![index] = 0]
                    /\ k_invalid' = [k_invalid EXCEPT ![stream] = TRUE]
                    /\ k_freed' = index
               ELSE UNCHANGED <<k_stream_indices, k_output_streams, k_invalid, k_freed>>
       ELSE /\ k_event' = [NoEvent EXCEPT !.op = "ack", !.index = index, !.for = for,
                                          !.code = code]
            /\ UNCHANGED <<k_stream_indices, k_output_streams, k_invalid, k_freed>>
    /\ UNCHANGED <<k_index, k_ended>>

\* An ack instruction with any index and code is received.
Ack(index, code) ==
    /\ ack(index, code, 0)
    /\ UNCHANGED others_K

\* The ack the server sent for the OutputStream numbered s is received: the
\* server names the stream by its index.
AckFor(s, code) ==
    /\ s \in 1..Len(k_index)
    /\ ack(k_index[s], code, s)
    /\ UNCHANGED others_K

NextStreams ==
    \/ CreateStream
    \/ \E s \in 1..MaxStreams : SendEnd(s)
    \/ \E index \in Indices : \E code \in AckCodes : Ack(index, code)

NextAcks ==
    \/ CreateStream
    \/ \E s \in 1..MaxStreams : SendEnd(s)
    \/ \E s \in 1..MaxStreams : \E code \in AckCodes : AckFor(s, code)

(***************************************************************************)
(* ArrayBufferWriter.                                                      *)
(*                                                                         *)
(* The data given to sendData is n bytes, numbered from 0. A blob is the   *)
(* record [from, to, base64] of the bytes from..to-1 it carries (decoding  *)
(* its base64 text gives back exactly these bytes) and the length of the   *)
(* base64 text window.btoa makes of them.                                  *)
(***************************************************************************)
\* bytes.subarray(begin, end) of an array of n bytes: end is clamped to n.
subarray(n, begin, end) == [from |-> Min(begin, n), to |-> Min(end, n)]

\* __send_blob(bytes): the blob given to stream.sendBlob.
send_blob(bytes) ==
    [ from |-> bytes.from, to |-> bytes.to,
      base64 |-> 4 * ((bytes.to - bytes.from + 2) \div 3) ]

\* The offsets the for loop of sendData visits.
BlobOffsets(n) == { offset \in 0..n : offset % BlobLength = 0 /\ offset < n }

\* ArrayBufferWriter.sendData(data) for data of n bytes: the blobs sent, in
\* order.
sendData(n) ==
    IF n <= BlobLength
    THEN << send_blob(subarray(n, 0, n)) >>
    ELSE [ i \in 1..Cardinality(BlobOffsets(n)) |->
             send_blob(subarray(n, (i - 1) * BlobLength, (i - 1) * BlobLength + 8094)) ]

\* The sizes of the data given to sendData.
DataSizes ==
    (0..Spread) \cup ((BlobLength - Spread)..(BlobLength + Spread))
      \cup ((2 * BlobLength - Spread)..(2 * BlobLength + Spread)) \cup {MaxData}

WriterInit ==
    /\ ab_length = -1
    /\ ab_blobs = <<>>

\* writer.sendData(data), data holding n bytes
SendData(n) ==
    /\ ab_length' = n
    /\ ab_blobs' = sendData(n)
    /\ UNCHANGED others_B

NextWriter == \E n \in DataSizes : SendData(n)

(***************************************************************************)
(* StringReader.                                                           *)
(*                                                                         *)
(* A byte is a number in 0..255, a text a sequence of UTF-16 code units    *)
(* (numbers in 0..65535). The reader's private variables are the fields of *)
(* a record rd, with the text decoded so far.                              *)
(***************************************************************************)
\* String.fromCharCode(codepoint): the code unit is the number's low 16 bits.
fromCharCode(codepoint) == codepoint % 65536

\* One round of the loop of __decode_utf8 that keeps counting after an
\* invalid continuation byte.
decode_byte_noReset(rd, value) ==
    IF rd.bytes_remaining = 0
    THEN IF value \div 128 = 0
         THEN [rd EXCEPT !.text = Append(@, fromCharCode(value))]
         ELSE IF value \div 32 = 6
         THEN [rd EXCEPT !.codepoint = value % 32, !.bytes_remaining = 1]
         ELSE IF value \div 16 = 14
         THEN [rd EXCEPT !.codepoint = value % 16, !.bytes_remaining = 2]
         ELSE IF value \div 8 = 30
         THEN [rd EXCEPT !.codepoint = value % 8, !.bytes_remaining = 3]
         ELSE [rd EXCEPT !.text = Append(@, REPLACEMENT)]
    ELSE IF value \div 64 = 2
    THEN LET codepoint == (rd.codepoint * 64) + (value % 64) IN
         [rd EXCEPT !.codepoint = codepoint,
                    !.bytes_remaining = @ - 1,
                    !.text = IF rd.bytes_remaining = 1
                             THEN Append(@, fromCharCode(codepoint)) ELSE @]
    ELSE [rd EXCEPT !.text = Append(@, REPLACEMENT)]

\* One round of the loop of __decode_utf8, for the byte `value`. The tests
\* (value | 0x7F) === 0x7F, (value | 0x1F) === 0xDF, (value | 0x0F) === 0xEF,
\* (value | 0x07) === 0xF7 and (value | 0x3F) === 0xBF compare the byte's
\* high bits with 0, 110, 1110, 11110 and 10.
decode_byte(rd, value) ==
    IF rd.bytes_remaining = 0
    THEN IF value \div 128 = 0
         THEN [rd EXCEPT !.text = Append(@, fromCharCode(value))]
         ELSE IF value \div 32 = 6
         THEN [rd EXCEPT !.codepoint = value % 32, !.bytes_remaining = 1]
         ELSE IF value \div 16 = 14
         THEN [rd EXCEPT !.codepoint = value % 16, !.bytes_remaining = 2]
         ELSE IF value \div 8 = 30
         THEN [rd EXCEPT !.codepoint = value % 8, !.bytes_remaining = 3]
         ELSE [rd EXCEPT !.text = Append(@, REPLACEMENT)]
    ELSE IF value \div 64 = 2
    THEN LET codepoint == (rd.codepoint * 64) + (value % 64) IN
         [rd EXCEPT !.codepoint = codepoint,
                    !.bytes_remaining = @ - 1,
                    !.text = IF rd.bytes_remaining = 1
                             THEN Append(@, fromCharCode(codepoint)) ELSE @]
    ELSE [rd EXCEPT !.bytes_remaining = 0, !.text = Append(@, REPLACEMENT)]

\* __decode_utf8(buffer): the reader after the loop over the buffer's bytes;
\* its text has the decoded text appended.
RECURSIVE decode_utf8(_, _)
decode_utf8(rd, buffer) ==
    IF buffer = <<>> THEN rd
    ELSE decode_utf8(decode_byte(rd, Head(buffer)), Tail(buffer))

\* new StringReader(stream)
NewReader == [bytes_remaining |-> 0, codepoint |-> 0, text |-> <<>>]

\* The bytes the blobs are made of: an ASCII letter, the least and the
\* greatest continuation byte, a leading byte of a 2-, a 3- and a 4-byte
\* sequence, and a byte that is neither.
SampleBytes == {65, 128, 191, 195, 228, 240, 255}

ReaderInit ==
    /\ sr_input \in UNION { [1..n -> SampleBytes] : n \in 0..MaxBytes }
    /\ sr_fed = 0
    /\ sr_bytes_remaining = 0
    /\ sr_codepoint = 0
    /\ sr_text = <<>>
    /\ sr_cuts = {}

\* No blob arrives.
ReaderIdle == ReaderInit /\ sr_input = <<>>

\* array_reader.ondata(buffer) for a blob holding the next n bytes.
ReceiveBlob(n) ==
    /\ n \in 1..(Len(sr_input) - sr_fed)
    /\ LET rd0 == [bytes_remaining |-> sr_bytes_remaining,
                   codepoint |-> sr_codepoint, text |-> <<>>]
           rd  == decode_utf8(rd0, SubSeq(sr_input, sr_fed + 1, sr_fed + n))
       IN  /\ sr_bytes_remaining' = rd.bytes_remaining
           /\ sr_codepoint' = rd.codepoint
           /\ sr_text' = sr_text \o rd.text
    /\ sr_fed' = sr_fed + n
    /\ sr_cuts' = sr_cuts \cup {sr_fed + n}
    /\ UNCHANGED sr_input
    /\ UNCHANGED others_R

NextReader == \E n \in 1..MaxBytes : ReceiveBlob(n)

(***************************************************************************)
(* Client: connection state, keep-alive timer, and the instruction         *)
(* handlers that draw on the Display and answer sync.                      *)
(*                                                                         *)
(* The client's private variables are the fields of a record cl, with the  *)
(* histories of the step. The tunnel is any Tunnel: its connect may throw, *)
(* and it delivers instructions between a connect that returned and the    *)
(* next disconnect. Intervals are numbered 1, 2, ... in the order          *)
(* setInterval made them; pingInterval is 0 while the variable is null.    *)
(* No audio player is registered.                                          *)
(***************************************************************************)
ClientState ==
    [ state |-> cl_state, timestamp |-> cl_timestamp,
      pingInterval |-> cl_pingInterval, intervals |-> cl_intervals,
      delivering |-> cl_delivering, connects |-> cl_connects,
      syncs |-> cl_syncs, echoes |-> cl_echoes,
      changes |-> <<>>, calls |-> <<>>, onerror |-> <<>>, event |-> "none" ]

\* setState(state)
setState(cl, state) ==
    IF state # cl.state
    THEN [cl EXCEPT !.state = state, !.changes = Append(@, state)]
    ELSE cl

\* tunnel.sendMessage(...) and the other calls the client makes on its tunnel.
TunnelCall(cl, op, arg) == [cl EXCEPT !.calls = Append(@, [op |-> op, arg |-> arg])]

\* displaySyncComplete answering the sync without keeping its timestamp.
displaySyncComplete_keepTimestamp(cl, frame, at) ==
    LET timestamp == cl.syncs[frame].timestamp IN
    IF timestamp # cl.timestamp
    THEN [TunnelCall(cl, "sync", timestamp) EXCEPT
            !.echoes = Append(@, [frame |-> frame, timestamp |-> timestamp, at |-> at])]
    ELSE cl

\* displaySyncComplete, the callback the sync handler gives to Display.flush,
\* for the sync that made the given frame; `at` is the callback's position
\* among the calls the display has made.
displaySyncComplete(cl, frame, at) ==
    LET timestamp == cl.syncs[frame].timestamp IN
    IF timestamp # cl.timestamp
    THEN [TunnelCall(cl, "sync", timestamp) EXCEPT
            !.timestamp = timestamp,
            !.echoes = Append(@, [frame |-> frame, timestamp |-> timestamp, at |-> at])]
    ELSE cl

\* The frame callbacks among the calls the display made in this step, run in
\* order; `at` is the number of calls the display made before them.
RECURSIVE RunCallbacks(_, _, _)
RunCallbacks(cl, calls, at) ==
    IF calls = <<>> THEN cl
    ELSE RunCallbacks(IF Head(calls).kind = "callback"
                      THEN displaySyncComplete(cl, Head(calls).frame, at + 1)
                      ELSE cl,
                      Tail(calls), at + 1)

\* The calls the display makes in this step.
NewDisplayCalls == SubSeq(executed', Len(executed) + 1, Len(executed'))

\* Client.disconnect()
client_disconnect(cl) ==
    IF cl.state # STATE_DISCONNECTED /\ cl.state # STATE_DISCONNECTING
    THEN LET c1 == setState(cl, STATE_DISCONNECTING)
             c2 == IF c1.pingInterval # 0
                   THEN [c1 EXCEPT !.intervals = @ \ {c1.pingInterval}]
                   ELSE c1
             c3 == TunnelCall(TunnelCall(c2, "disconnect message", 0), "disconnect", 0)
         IN  setState([c3 EXCEPT !.delivering = FALSE], STATE_DISCONNECTED)
    ELSE cl

ClientInit ==
    /\ cl_state = STATE_IDLE
    /\ cl_timestamp = 0
    /\ cl_pingInterval = 0
    /\ cl_intervals = {}
    /\ cl_delivering = FALSE
    /\ cl_connects = 0
    /\ cl_syncs = <<>>
    /\ cl_echoes = <<>>
    /\ cl_changes = <<>>
    /\ cl_calls = <<>>
    /\ cl_onerror = <<>>
    /\ cl_event = "none"

SetClient(cl) ==
    /\ cl_state' = cl.state
    /\ cl_timestamp' = cl.timestamp
    /\ cl_pingInterval' = cl.pingInterval
    /\ cl_intervals' = cl.intervals
    /\ cl_delivering' = cl.delivering
    /\ cl_connects' = cl.connects
    /\ cl_syncs' = cl.syncs
    /\ cl_echoes' = cl.echoes
    /\ cl_changes' = cl.changes
    /\ cl_calls' = cl.calls
    /\ cl_onerror' = cl.onerror
    /\ cl_event' = cl.event

\* Client.connect(data); throws says whether tunnel.connect throws.
ClientConnect(throws) ==
    /\ cl_connects < MaxClientConnects
    /\ LET c0 == [ClientState EXCEPT !.event = "connect", !.connects = @ + 1]
           c1 == TunnelCall(setState(c0, STATE_CONNECTING), "connect", 0)
       IN  IF throws
           THEN SetClient(setState(c1, STATE_IDLE))
           ELSE SetClient(setState([c1 EXCEPT !.pingInterval = c1.connects,
                                              !.intervals = @ \cup {c1.connects},
                                              !.delivering = TRUE],
                                   STATE_WAITING))
    /\ UNCHANGED dvars
    /\ UNCHANGED others_L

\* Client.disconnect()
ClientDisconnect ==
    /\ SetClient(client_disconnect([ClientState EXCEPT !.event = "disconnect"]))
    /\ UNCHANGED dvars
    /\ UNCHANGED others_L

\* The client after its first connect() has returned.
ClientConnected ==
    /\ cl_state = STATE_WAITING
    /\ cl_timestamp = 0
    /\ cl_pingInterval = 1
    /\ cl_intervals = {1}
    /\ cl_delivering = TRUE
    /\ cl_connects = 1
    /\ cl_syncs = <<>>
    /\ cl_echoes = <<>>
    /\ cl_changes = <<STATE_CONNECTING, STATE_WAITING>>
    /\ cl_calls = <<[op |-> "connect", arg |-> 0]>>
    /\ cl_onerror = <<>>
    /\ cl_event = "connect"

\* One tick of a keep-alive interval that is still running.
Ping(id) ==
    /\ id \in cl_intervals
    /\ SetClient(TunnelCall([ClientState EXCEPT !.event = "ping"], "sync", cl_timestamp))
    /\ UNCHANGED dvars
    /\ UNCHANGED others_L

\* instructionHandlers.sync for "sync,<timestamp>"
ReceiveSync(timestamp) ==
    /\ cl_delivering
    /\ Len(cl_syncs) < MaxSyncs
    /\ display_flush(TRUE)
    /\ LET c0 == [ClientState EXCEPT
                     !.event = "sync",
                     !.syncs = Append(@, [timestamp |-> timestamp, tasks |-> Len(blocked)])]
           c1 == RunCallbacks(c0, NewDisplayCalls, Len(executed))
       IN  SetClient(IF c1.state = STATE_WAITING THEN setState(c1, STATE_CONNECTED) ELSE c1)
    /\ UNCHANGED others_L

\* instructionHandlers.png or .jpeg: setChannelMask, then Display.draw, whose
\* task stays blocked until the image has loaded.
ReceiveImage ==
    /\ cl_delivering
    /\ Len(blocked) + 2 <= MaxTasks
    /\ scheduleTasks(<<FALSE, TRUE>>)
    /\ SetClient([ClientState EXCEPT !.event = "png"])
    /\ UNCHANGED others_L

\* instructionHandlers.rect
ReceiveRect ==
    /\ cl_delivering
    /\ Len(blocked) < MaxTasks
    /\ scheduleTasks(<<FALSE>>)
    /\ SetClient([ClientState EXCEPT !.event = "rect"])
    /\ UNCHANGED others_L

\* instructionHandlers.error for "error,<reason>,<code>": onerror, then
\* disconnect. The application has set guac_client.onerror.
ReceiveError(code) ==
    /\ cl_delivering
    /\ SetClient(client_disconnect([ClientState EXCEPT !.event = "error",
                                                       !.onerror = <<code>>]))
    /\ UNCHANGED dvars
    /\ UNCHANGED others_L

\* image.onload of the image of Display.draw's task t: task.unblock.
ImageLoad(t) ==
    /\ t \in 1..Len(blocked)
    /\ startBlocked[t] /\ blocked[t]
    /\ task_unblock(t)
    /\ SetClient(RunCallbacks([ClientState EXCEPT !.event = "load"],
                              NewDisplayCalls, Len(executed)))
    /\ UNCHANGED others_L

\* The tunnel closes on its own with the given status code (close_tunnel of
\* the tunnel: a transport error, a malformed message, the receive timeout):
\* it calls its own onerror and onstatechange, neither of which the Client
\* has set, and delivers nothing more.
TunnelCloses(code) ==
    /\ cl_delivering
    /\ SetClient([ClientState EXCEPT !.event = "tunnel closed", !.delivering = FALSE])
    /\ UNCHANGED dvars
    /\ UNCHANGED others_L

NextClient ==
    \/ \E code \in ErrorCodes : TunnelCloses(code)
    \/ \E throws \in BOOLEAN : ClientConnect(throws)
    \/ ClientDisconnect
    \/ \E id \in 1..MaxClientConnects : Ping(id)
    \/ \E timestamp \in 0..MaxTimestamp : ReceiveSync(timestamp)
    \/ ReceiveImage
    \/ ReceiveRect
    \/ \E code \in ErrorCodes : ReceiveError(code)
    \/ \E t \in 1..MaxTasks : ImageLoad(t)

(***************************************************************************)
(* Layer: the stack of saved states and the size.                          *)
(*                                                                         *)
(* A layer is a record la of width, height, autosize and stackSize.        *)
(***************************************************************************)
\* The private function resize(newWidth, newHeight): the canvas gets the
\* new size, which empties the stack of the context.
private_resize(la, newWidth, newHeight) ==
    [la EXCEPT !.width = newWidth, !.height = newHeight, !.stackSize = 0]

\* Layer.resize(newWidth, newHeight)
layer_resize(la, newWidth, newHeight) ==
    IF newWidth # la.width \/ newHeight # la.height
    THEN private_resize(la, newWidth, newHeight)
    ELSE la

\* fitRect(x, y, w, h)
fitRect(la, x, y, w, h) ==
    LET opBoundX == w + x
        opBoundY == h + y
        resizeWidth == IF opBoundX > la.width THEN opBoundX ELSE la.width
        resizeHeight == IF opBoundY > la.height THEN opBoundY ELSE la.height
    IN  layer_resize(la, resizeWidth, resizeHeight)

\* Layer.drawImage(x, y, image) with an image of w by h pixels.
drawImage(la, x, y, w, h) ==
    IF la.autosize THEN fitRect(la, x, y, w, h) ELSE la

\* Layer.push()
layer_push(la) == [la EXCEPT !.stackSize = @ + 1]

\* Layer.pop()
layer_pop(la) == IF la.stackSize > 0 THEN [la EXCEPT !.stackSize = @ - 1] ELSE la

\* Layer.reset()
layer_reset(la) == [la EXCEPT !.stackSize = 0]

LayerState ==
    [ width |-> la_width, height |-> la_height, autosize |-> la_autosize,
      stackSize |-> la_stackSize ]

SetLayer(la, event) ==
    /\ la_width' = la.width
    /\ la_height' = la.height
    /\ la_autosize' = la.autosize
    /\ la_stackSize' = la.stackSize
    /\ la_event' = event

Extents == 0..MaxExtent

\* A new Layer: a buffer (0 by 0, autosize set by Display.createBuffer) or
\* a layer of the size of the display.
LayerInit ==
    /\ la_autosize \in BOOLEAN
    /\ la_width = (IF la_autosize THEN 0 ELSE MaxExtent)
    /\ la_height = (IF la_autosize THEN 0 ELSE MaxExtent)
    /\ la_stackSize = 0
    /\ la_event = "none"

\* No layer is used.
LayerIdle == LayerInit /\ la_autosize = FALSE

Push ==
    /\ la_stackSize < MaxDepth
    /\ SetLayer(layer_push(LayerState), "push")
    /\ UNCHANGED others_G

Pop ==
    /\ SetLayer(layer_pop(LayerState), "pop")
    /\ UNCHANGED others_G

Reset ==
    /\ SetLayer(layer_reset(LayerState), "reset")
    /\ UNCHANGED others_G

Resize(newWidth, newHeight) ==
    /\ SetLayer(layer_resize(LayerState, newWidth, newHeight), "resize")
    /\ UNCHANGED others_G

\* Layer.drawImage with an image of w by h pixels, w and h at least 1.
DrawImage(x, y, w, h) ==
    /\ x + w <= MaxExtent
    /\ y + h <= MaxExtent
    /\ SetLayer(drawImage(LayerState, x, y, w, h), "draw")
    /\ UNCHANGED others_G

NextLayer ==
    \/ Push
    \/ Pop
    \/ Reset
    \/ \E newWidth, newHeight \in Extents : Resize(newWidth, newHeight)
    \/ \E x, y \in Extents : \E w, h \in 1..MaxExtent : DrawImage(x, y, w, h)

(***************************************************************************)
(* Client and Display: the visible layers.                                 *)
(*                                                                         *)
(* The VisibleLayer objects are numbered 1, 2, ... in creation order;      *)
(* object 1 is the default layer of the display. The record ly holds the   *)
(* client's table layers (index to object) and, per object, parent and     *)
(* children. Buffers (negative indices) are not modelled.                  *)
(***************************************************************************)
LayerIndices == 0..MaxLayer

LayersState == [ layers |-> ly_layers, parent |-> ly_parent, children |-> ly_children ]

\* VisibleLayer.move(parent, x, y, z) on object layer, as far as the
\* parent and children relation goes.
layer_move(ly, layer, parent) ==
    IF ly.parent[layer] # parent
    THEN LET old == ly.parent[layer]
             a == IF old # 0 THEN [ly EXCEPT !.children[old] = @ \ {layer}] ELSE ly
         IN  [a EXCEPT !.parent[layer] = parent,
                       !.children[parent] = @ \cup {layer}]
    ELSE ly

\* VisibleLayer.dispose() on object layer.
layer_dispose(ly, layer) ==
    IF ly.parent[layer] # 0
    THEN [ly EXCEPT !.children[ly.parent[layer]] = @ \ {layer},
                    !.parent[layer] = 0]
    ELSE ly

\* Display.createLayer(): a new VisibleLayer, moved into the default layer.
createLayer(ly) ==
    layer_move([ly EXCEPT !.parent = Append(@, 0), !.children = Append(@, {})],
               Len(ly.parent) + 1, 1)

\* getLayer(index) of the Client for index >= 0: the state afterwards; the
\* layer returned is its layers[index].
getLayer(ly, index) ==
    IF ly.layers[index] # 0 THEN ly
    ELSE IF index = 0 THEN [ly EXCEPT !.layers[0] = 1]
    ELSE LET a == createLayer(ly) IN [a EXCEPT !.layers[index] = Len(a.parent)]

SetLayers(ly) ==
    /\ ly_layers' = ly.layers
    /\ ly_parent' = ly.parent
    /\ ly_children' = ly.children

\* A new Client with its Display: the default layer exists, the table is
\* empty.
LayersInit ==
    /\ ly_layers = [i \in LayerIndices |-> 0]
    /\ ly_parent = <<0>>
    /\ ly_children = <<{}>>

\* instructionHandlers.move for "move,<layer>,<parent>,x,y,z"
ReceiveMove(layer_index, parent_index) ==
    /\ cl_delivering
    /\ IF layer_index > 0 /\ parent_index >= 0
       THEN LET a == getLayer(LayersState, layer_index)
                b == getLayer(a, parent_index)
            IN  /\ Len(b.parent) <= MaxLayerObjects
                /\ SetLayers(layer_move(b, b.layers[layer_index], b.layers[parent_index]))
       ELSE UNCHANGED yvars
    /\ UNCHANGED others_Y

\* instructionHandlers.dispose for "dispose,<layer>"
ReceiveDispose(layer_index) ==
    /\ cl_delivering
    /\ IF layer_index > 0
       THEN LET a == getLayer(LayersState, layer_index)
                b == layer_dispose(a, a.layers[layer_index])
            IN  /\ Len(b.parent) <= MaxLayerObjects
                /\ SetLayers([b EXCEPT !.layers[layer_index] = 0])
       ELSE UNCHANGED yvars
    /\ UNCHANGED others_Y

\* The server draws, ends frames, and moves and disposes layers.
NextLayers ==
    \/ ReceiveRect
    \/ \E timestamp \in 0..MaxTimestamp : ReceiveSync(timestamp)
    \/ \E l, p \in LayerIndices : ReceiveMove(l, p)
    \/ \E l \in LayerIndices : ReceiveDispose(l)

(***************************************************************************)
(* Client: input streams.                                                  *)
(*                                                                         *)
(* The InputStream objects are numbered 1, 2, ... in creation order;       *)
(* streams maps an index to the number of the stream stored there, or to 0 *)
(* where the array has no entry. The application has set onpipe, and sets  *)
(* onblob and onend on every stream it is given.                           *)
(***************************************************************************)
\* isConnected()
isConnected == cl_state = STATE_CONNECTED \/ cl_state = STATE_WAITING

NoInputEvent == [op |-> "none", index |-> -1, stream |-> 0, code |-> 0, sent |-> FALSE]

InputInit ==
    /\ in_streams = [i \in Indices |-> 0]
    /\ in_index = <<>>
    /\ in_refused = {}
    /\ in_event = NoInputEvent

\* instructionHandlers.pipe for "pipe,<index>,<mimetype>,<name>"
ReceivePipe(index) ==
    /\ cl_delivering
    /\ Len(in_index) < MaxStreams
    /\ in_streams' = [in_streams EXCEPT ![index] = Len(in_index) + 1]
    /\ in_index' = Append(in_index, index)
    /\ in_event' = [NoInputEvent EXCEPT !.op = "pipe", !.index = index,
                                        !.stream = Len(in_index) + 1]
    /\ UNCHANGED in_refused
    /\ UNCHANGED others_I

\* stream.sendAck(message, code) by the holder of InputStream s:
\* client.sendAck(index, message, code).
StreamSendAck(s, code) ==
    /\ s \in 1..Len(in_index)
    /\ in_event' = [NoInputEvent EXCEPT !.op = "sendAck", !.index = in_index[s],
                                        !.stream = s, !.code = code,
                                        !.sent = isConnected]
    /\ in_refused' = IF code >= 256 THEN in_refused \cup {s} ELSE in_refused
    /\ UNCHANGED <<in_streams, in_index>>
    /\ UNCHANGED others_I

\* instructionHandlers.blob for "blob,<index>,<data>": event.stream is the
\* stream whose onblob is called, 0 if none.
ReceiveBlobInstruction(index) ==
    /\ cl_delivering
    /\ in_event' = [NoInputEvent EXCEPT !.op = "blob", !.index = index,
                                        !.stream = in_streams[index]]
    /\ UNCHANGED <<in_streams, in_index, in_refused>>
    /\ UNCHANGED others_I

\* instructionHandlers.end for "end,<index>": event.stream is the stream
\* whose onend is called, 0 if none; the table entry is deleted.
ReceiveEnd(index) ==
    /\ cl_delivering
    /\ in_event' = [NoInputEvent EXCEPT !.op = "end", !.index = index,
                                        !.stream = in_streams[index]]
    /\ in_streams' = [in_streams EXCEPT ![index] = 0]
    /\ UNCHANGED <<in_index, in_refused>>
    /\ UNCHANGED others_I

NextInput ==
    \/ \E index \in Indices : ReceivePipe(index)
    \/ \E s \in 1..MaxStreams : \E code \in AckCodes : StreamSendAck(s, code)
    \/ \E index \in Indices : ReceiveBlobInstruction(index)
    \/ \E index \in Indices : ReceiveEnd(index)
    \/ ClientDisconnect

\* The client once connect() has returned, while the server sends no error
\* instruction and connect is not called again.
NextSync ==
    \/ ClientDisconnect
    \/ \E id \in 1..MaxClientConnects : Ping(id)
    \/ \E timestamp \in 0..MaxTimestamp : ReceiveSync(timestamp)
    \/ ReceiveImage
    \/ ReceiveRect
    \/ \E t \in 1..MaxTasks : ImageLoad(t)

(***************************************************************************)
(* Specifications: one per subsystem, the others staying in their initial  *)
(* state.                                                                  *)
(***************************************************************************)
\* The tunnel is a WebSocketTunnel on which nothing is called.
TunnelIdle == TunnelInit /\ t_kind = "ws"

Init ==
    DisplayInit /\ ChainInit /\ TunnelIdle /\ ParserIdle /\ StatusIdle /\ StreamsInit /\ LayerIdle /\ LayersInit /\ MessageIdle /\ ReentryInit /\ ReadInit /\ InputInit /\ ReaderIdle /\ WriterInit /\ ClientInit

\* The tunnel is a WebSocketTunnel or an HTTPTunnel.
InitTunnel ==
    /\ DisplayInit /\ ChainInit /\ ParserIdle /\ StatusIdle /\ StreamsInit /\ LayerIdle /\ LayersInit /\ MessageIdle /\ ReentryInit /\ ReadInit /\ InputInit /\ ReaderIdle /\ WriterInit /\ ClientInit
    /\ TunnelInit /\ t_kind \in {"ws", "http"}

\* The parser is given the encoding of one of the streams.
InitParser ==
    /\ DisplayInit /\ ChainInit /\ TunnelIdle /\ StatusIdle /\ StreamsInit /\ LayerIdle /\ LayersInit /\ MessageIdle /\ ReentryInit /\ ReadInit /\ InputInit /\ ReaderIdle /\ WriterInit /\ ClientInit
    /\ ParserInit

\* The client has connected.
InitSync ==
    /\ DisplayInit /\ ChainInit /\ TunnelIdle /\ ParserIdle /\ StatusIdle /\ StreamsInit /\ LayerIdle /\ LayersInit /\ MessageIdle /\ ReentryInit /\ ReadInit /\ InputInit /\ ReaderIdle /\ WriterInit
    /\ ClientConnected

\* A StringReader is given any of the byte sequences.
InitReader ==
    /\ DisplayInit /\ ChainInit /\ TunnelIdle /\ ParserIdle /\ StatusIdle
    /\ StreamsInit /\ LayerIdle /\ LayersInit /\ MessageIdle /\ ReentryInit /\ ReadInit /\ InputInit /\ WriterInit /\ ClientInit
    /\ ReaderInit

\* The client has connected; no input stream exists yet.
InitInput == InitSync

\* The parser is given a stream with a malformed element.
InitMalformed ==
    /\ DisplayInit /\ ChainInit /\ TunnelIdle /\ StatusIdle
    /\ StreamsInit /\ LayerIdle /\ LayersInit /\ MessageIdle /\ ReentryInit /\ ReadInit /\ InputInit /\ ReaderIdle /\ WriterInit /\ ClientInit
    /\ MalformedInit

\* The parser is given a stream one whole instruction per packet.
InitAligned ==
    /\ DisplayInit /\ ChainInit /\ TunnelIdle /\ StatusIdle
    /\ StreamsInit /\ LayerIdle /\ LayersInit /\ MessageIdle /\ ReentryInit /\ ReadInit /\ InputInit /\ ReaderIdle /\ WriterInit /\ ClientInit
    /\ AlignedInit

\* A WebSocketTunnel is given any of the messages.
InitMessage ==
    /\ DisplayInit /\ ChainInit /\ TunnelIdle /\ ParserIdle /\ StatusIdle
    /\ StreamsInit /\ LayerIdle /\ LayersInit /\ ReentryInit /\ ReadInit /\ InputInit /\ ReaderIdle /\ WriterInit /\ ClientInit
    /\ MessageInit

\* The layers are moved and disposed on a connected client.
InitLayers == InitSync

\* A Layer is made, a buffer or not.
InitLayer ==
    /\ DisplayInit /\ ChainInit /\ TunnelIdle /\ ParserIdle /\ StatusIdle
    /\ StreamsInit /\ LayersInit /\ MessageIdle /\ ReentryInit /\ ReadInit
    /\ InputInit /\ ReaderIdle /\ WriterInit /\ ClientInit
    /\ LayerInit

\* A Status is made with any of the codes.
InitStatus ==
    /\ DisplayInit /\ ChainInit /\ TunnelIdle /\ ParserIdle /\ StreamsInit /\ LayerIdle /\ LayersInit /\ MessageIdle /\ ReentryInit /\ ReadInit /\ InputInit /\ ReaderIdle /\ WriterInit /\ ClientInit
    /\ StatusInit

SpecDisplay == Init /\ [][NextDisplay]_vars

SpecChain == Init /\ [][NextChain]_vars

SpecChainErrors == Init /\ [][NextChainErrors]_vars

SpecTunnel == InitTunnel /\ [][NextTunnel]_vars
SpecSend == InitTunnel /\ [][NextSend]_vars
SpecReceive == InitTunnel /\ [][NextReceive]_vars

SpecParser == InitParser /\ [][NextParser]_vars

SpecMalformed == InitMalformed /\ [][NextParser]_vars

SpecStatus == InitStatus /\ [][NextStatus]_vars

SpecStreams == Init /\ [][NextStreams]_vars

SpecClient == Init /\ [][NextClient]_vars

SpecSync == InitSync /\ [][NextSync]_vars

SpecWriter == Init /\ [][NextWriter]_vars

SpecReader == InitReader /\ [][NextReader]_vars

SpecInput == InitInput /\ [][NextInput]_vars

SpecRead == Init /\ [][NextRead]_vars

SpecReentrant == Init /\ [][NextReentrant]_vars

SpecDeliver == Init /\ [][NextDeliver]_vars

SpecMessage == InitMessage /\ [][NextMessage]_vars

SpecLayers == InitLayers /\ [][NextLayers]_vars

SpecLayer == InitLayer /\ [][NextLayer]_vars

SpecAcks == Init /\ [][NextAcks]_vars

SpecAligned == InitAligned /\ [][NextAligned]_vars

(***************************************************************************)
(* Claims about the Display.                                               *)
(***************************************************************************)
\* The tasks of the frame a task was sealed into; <<>> while still pending.
FrameOf(t) ==
    LET S == { i \in 1..Len(flushed) : t \in Range(flushed[i].tasks) }
    IN  IF S = {} THEN <<>> ELSE flushed[CHOOSE i \in S : TRUE].tasks

ExecutedTasks == { executed[i].task : i \in { j \in 1..Len(executed) : executed[j].kind = "task" } }

\* C1: no task of a sealed frame has executed while a task of that frame is
\* blocked. Task.blocked never goes back to true and a whole drain is one
\* step, so the flags in the state are the flags at execution time.
C1_FrameAtomic ==
    \A t \in ExecutedTasks :
        /\ FrameOf(t) # <<>>
        /\ \A u \in Range(FrameOf(t)) : ~blocked[u]

\* C1 witness: a frame holding a task created blocked and a task created
\* unblocked has executed.
C1_Witness ==
    \E t \in ExecutedTasks :
        /\ \E u \in Range(FrameOf(t)) : startBlocked[u]
        /\ \E u \in Range(FrameOf(t)) : ~startBlocked[u]

\* C2: the calls made so far are exactly the tasks and callback of the
\* frames that left the queue, frame by frame in flush order, each frame's
\* tasks in scheduling order followed by its callback.
C2_ScheduledOrder ==
    LET done == Len(flushed) - Len(frames) IN
    /\ done >= 0
    /\ executed = Flatten([i \in 1..done |->
            [j \in 1..Len(flushed[i].tasks) |-> [kind |-> "task", task |-> flushed[i].tasks[j]]]
            \o (IF flushed[i].callback
                THEN << [kind |-> "callback", frame |-> i] >> ELSE <<>>)])
    /\ \A i \in 1..Len(frames) : frames[i] = flushed[done + i]
    /\ \A i \in 1..Len(executed) : \A j \in 1..Len(executed) :
          (i < j /\ executed[i].kind = "task" /\ executed[j].kind = "task")
              => executed[i].task < executed[j].task

\* C2 witness: an earlier frame has run with its callback, the head of the
\* queue is blocked, and a later frame that is already ready waits behind it.
C2_Witness ==
    /\ \E i \in 1..Len(executed) : executed[i].kind = "callback"
    /\ Len(frames) >= 2
    /\ ~isReady(frames[1], blocked)
    /\ frames[1].tasks # <<>>
    /\ isReady(frames[2], blocked)
    /\ frames[2].tasks # <<>>

(***************************************************************************)
(* Claims about the ChainedTunnel.                                         *)
(***************************************************************************)
\* C3: once a tunnel is committed, no tunnel after it in the list ever has
\* connect called.
C3_CommittedIsFinal ==
    [][ c_committed # 0 =>
            \A j \in Tunnels : j > c_committed => c_connects'[j] = c_connects[j] ]_vars

\* The consumer calls made by the step.
NewCalls == c_new'

\* Inner tunnel t goes to CLOSED in the step, with the given status code.
ClosesWith(t, code) ==
    /\ c_state[t] # CLOSED
    /\ c_state'[t] = CLOSED
    /\ c_failCode'[t] = code

\* C4: when the tunnel being tried (attached, nothing committed) reports
\* UPSTREAM_TIMEOUT, the list of remaining tunnels is emptied, no connect is
\* made, and the consumer's onerror gets the timeout; from then on no tunnel
\* that was never connected is ever connected.
C4_TimeoutDropsAll ==
    [][ /\ \A t \in Tunnels :
              ( /\ ClosesWith(t, UPSTREAM_TIMEOUT)
                /\ c_handlers[t] = "wrapped"
                /\ c_committed = 0 )
              => /\ c_tunnels' = <<>>
                 /\ c_connects' = c_connects
                 /\ NewCalls = << [type |-> "error", from |-> t, arg |-> UPSTREAM_TIMEOUT],
                                  [type |-> "statechange", from |-> t, arg |-> CLOSED] >>
        /\ c_timedOut =>
              /\ c_tunnels = <<>>
              /\ \A j \in Tunnels : c_connects[j] = 0 => c_connects'[j] = 0 ]_vars

\* C4 witness: the first tunnel timed out before any commit, the consumer was
\* told, connect was called again afterwards and found no tunnel left to try
\* (a second onerror), and the other tunnels were never connected.
C4_Witness ==
    /\ c_timedOut
    /\ c_failCode[1] = UPSTREAM_TIMEOUT
    /\ c_calls = 2
    /\ \A j \in Tunnels : j > 1 => c_connects[j] = 0
    /\ c_errors = 2
    /\ c_new = << [type |-> "error", from |-> 0, arg |-> SERVER_ERROR] >>

IsFailure(e) ==
    \/ e.type = "error"
    \/ e.type = "statechange" /\ e.arg = CLOSED

\* C5: a failure of inner tunnel t reaches the consumer only if t is
\* committed (commit_tunnel gave it the consumer's handlers) or the list of
\* remaining tunnels is empty and no tunnel is connected in its place; a
\* step in which a tunnel closes and a successor is attached
\* reports nothing, and a replaced tunnel (handlers removed) never reports.
\* In the run A fails with SERVER_ERROR, B commits and then closes with
\* SERVER_ERROR (connect called once), the close of B gives the consumer
\* onerror and then onstatechange(CLOSED), the consumer has exactly one
\* onerror, B's instructions once each, and no tunnel after B was connected.
C5_FailureReporting ==
    [][ /\ \A i \in 1..Len(NewCalls) :
              (IsFailure(NewCalls[i]) /\ NewCalls[i].from # 0) =>
                  /\ c_handlers[NewCalls[i].from] # "null"
                  /\ \/ c_handlers[NewCalls[i].from] = "consumer"
                     \/ (c_tunnels' = <<>> /\ c_connects' = c_connects)
        /\ (\E t \in Tunnels : c_state[t] # CLOSED /\ c_state'[t] = CLOSED
                               /\ c_connects' # c_connects)
              => NewCalls = <<>>
        /\ ( /\ c_calls' = 1
             /\ c_failCode'[1] = SERVER_ERROR
             /\ c_failCode'[2] = SERVER_ERROR
             /\ c_committed' = 2 )
              => /\ c_errors' = 1
                 /\ ClosesWith(2, SERVER_ERROR) =>
                        NewCalls = << [type |-> "error", from |-> 2, arg |-> SERVER_ERROR],
                                      [type |-> "statechange", from |-> 2, arg |-> CLOSED] >>
                 /\ \A j \in Tunnels : j > 2 => c_connects'[j] = 0
                 /\ \A n \in 1..c_instructions' : c_delivered'[n] <= 1 ]_vars

\* C5 witness: A failed with SERVER_ERROR and was replaced by B without a
\* report; B opened, delivered one instruction and closed with SERVER_ERROR.
C5_Witness ==
    /\ c_calls = 1
    /\ c_failCode[1] = SERVER_ERROR
    /\ c_connects[3] = 0
    /\ c_committed = 2
    /\ c_delivered[1] = 1
    /\ c_errors = 1
    /\ c_new = << [type |-> "error", from |-> 2, arg |-> SERVER_ERROR],
                  [type |-> "statechange", from |-> 2, arg |-> CLOSED] >>

(***************************************************************************)
(* Claims about the WebSocketTunnel and the HTTPTunnel.                    *)
(***************************************************************************)
\* C6: CLOSED is absorbing: a tunnel that is CLOSED stays CLOSED. Stated for
\* a tunnel that closed after its first connect call (nothing closed it
\* before) and on which connect is not called again, so that the only
\* events after the close are those of that one connection.
C6_ClosedAbsorbing ==
    [][ ( /\ t_state = CLOSED
          /\ t_connects = 1
          /\ t_closes[0] = 0
          /\ t_connects' = 1 )
        => t_state' = CLOSED ]_vars

\* The messages that reached the socket, the output buffer or a write POST.
Outgoing ==
    Range(w_sent) \cup Range(h_buffer)
        \cup UNION { Range(h_posts[p].body) : p \in 1..Len(h_posts) }

\* C7: a message whose sendMessage call found the tunnel not OPEN is nowhere:
\* not sent on the socket, not in the output buffer, not in a write POST.
C7_SendOnlyWhenOpen ==
    \A m \in 1..Len(t_msgState) : t_msgState[m] # OPEN => m \notin Outgoing

\* C7 witness: sendMessage was called before OPEN, while OPEN and after
\* CLOSED, and only the call made while OPEN left something.
C7_Witness ==
    /\ Len(t_msgState) = 3
    /\ t_msgState = <<CONNECTING, OPEN, CLOSED>>
    /\ Outgoing = {2}

InFlight == { p \in 1..Len(h_posts) : ~h_posts[p].done }

\* C8: at most one write POST is in flight.
C8_OnePostInFlight == Cardinality(InFlight) <= 1

\* The messages sendMessage accepted, in call order.
Accepted == SelectSeq([m \in 1..Len(t_msgState) |-> m], LAMBDA m : t_msgState[m] = OPEN)

\* C9: the bodies of the write POSTs in issue order, followed by what is
\* still in the output buffer, are the encodings of the accepted messages
\* in call order.
C9_PostsInOrder ==
    t_kind = "http" =>
    Flatten([p \in 1..Len(h_posts) |-> h_posts[p].body]) \o h_buffer = Accepted

\* C9 witness: a POST went out with one message, two more messages were
\* buffered while it was in flight and went out together in a second POST.
C9_Witness ==
    /\ t_kind = "http"
    /\ Len(h_posts) = 2
    /\ h_posts[1].body = <<1>>
    /\ h_posts[2].body = <<2, 3>>
    /\ h_buffer = <<>>

IsError(e) == e.type = "error"
IsClosed(e) == e.type = "statechange" /\ e.arg = CLOSED

\* C10, for a tunnel on which connect was called once and that was not
\* closed before: a close caused by an error status is announced by onerror
\* with that status right before onstatechange(CLOSED) (an HTTPTunnel that
\* was OPEN treats RESOURCE_NOT_FOUND as the end of the stream); onerror and
\* onstatechange(CLOSED) are called at most once each; and when the tunnel
\* was closed by disconnect(), onerror is never called.
C10_ErrorThenClosedOnce ==
    (t_connects = 1 /\ t_closes[0] = 0) =>
        /\ \A i \in 1..Len(t_calls) :
              ( /\ IsClosed(t_calls[i])
                /\ t_calls[i].cause # SUCCESS
                /\ ~(t_kind = "http" /\ t_calls[i].cause = RESOURCE_NOT_FOUND
                        /\ t_calls[i].from = OPEN) )
              => /\ i > 1
                 /\ t_calls[i-1] = [t_calls[i] EXCEPT !.type = "error", !.arg = t_calls[i].cause]
        /\ t_errors[1] <= 1
        /\ t_closes[1] <= 1
        /\ t_disconnects[1] > 0 => t_errors[1] = 0

\* The onerror call for the status that closed the tunnel is made right
\* before the i-th call of the step, an onstatechange(CLOSED).
Reported(i) ==
    /\ i > 1
    /\ t_calls[i-1] = [t_calls[i] EXCEPT !.type = "error", !.arg = t_calls[i].cause]

\* C11: when an HTTPTunnel closes with RESOURCE_NOT_FOUND, onerror is called
\* exactly if the tunnel was CONNECTING; a tunnel that was OPEN closes with
\* onstatechange(CLOSED) and no onerror call at all; a close with any other
\* status than SUCCESS calls onerror whatever the state was.
C11_NotFoundAfterOpen ==
    t_kind = "http" =>
        \A i \in 1..Len(t_calls) :
            (IsClosed(t_calls[i]) /\ t_calls[i].cause # SUCCESS) =>
                IF t_calls[i].cause = RESOURCE_NOT_FOUND
                THEN /\ Reported(i) <=> t_calls[i].from = CONNECTING
                     /\ t_calls[i].from # CONNECTING =>
                            /\ t_calls[i].from = OPEN
                            /\ \A j \in 1..Len(t_calls) : ~IsError(t_calls[j])
                ELSE Reported(i)

\* C11 witness: an OPEN HTTPTunnel has just closed with RESOURCE_NOT_FOUND and
\* the only call made was onstatechange(CLOSED).
C11_Witness ==
    /\ t_kind = "http"
    /\ t_calls = << [type |-> "statechange", arg |-> CLOSED,
                     cause |-> RESOURCE_NOT_FOUND, from |-> OPEN] >>

\* C12, the timer part: a step restarts the receive timer only if it is a
\* connect call or delivers something the server sent: the connection
\* opening, an instruction, or the status that closes the tunnel. A step
\* that brings nothing from the server (no handler is called) never calls
\* reset_timeout. While a connected tunnel is not CLOSED its timer is
\* pending, and when it fires the tunnel closes with UPSTREAM_TIMEOUT.
C12_TimerRestartedByDataOnly ==
    [][ /\ t_reset' => (t_connects' # t_connects \/ t_calls' # <<>>)
        /\ (t_connects > 0 /\ t_state # CLOSED) => t_timer ]_vars

(***************************************************************************)
(* Claims about the Parser and the encoder.                                *)
(***************************************************************************)
\* What one receive call on a new Parser emits for the whole of string s.
OneCall(s) == receive(NewParser, s).emitted

\* C13: however the stream is cut into packets, the instructions emitted so
\* far are those one receive call emits for the characters given so far, so
\* that after the last packet the parser has emitted exactly what one call
\* with the whole stream emits; no call throws.
C13_PacketsDoNotMatter ==
    /\ p_emitted = OneCall(SubSeq(p_input, 1, p_fed))
    /\ p_error = ""

\* C13 witness: a stream of over 4096 characters was given in several
\* packets, the buffer was truncated on the way, and all of it is parsed.
C13_Witness ==
    /\ p_fed = Len(p_input)
    /\ p_truncations > 0
    /\ p_packets > 3
    /\ Len(p_emitted) = 3
    /\ Len(p_emitted[1].opcode) = LongElement

\* C14: the parser emits the encoded instructions, opcode and elements
\* unchanged, one call per instruction and in order: once the whole encoding
\* was received the calls are the instructions; before, a prefix of them.
C14_DecodeEncode ==
    /\ Len(p_emitted) <= Len(p_instructions)
    /\ p_emitted = SubSeq(p_instructions, 1, Len(p_emitted))
    /\ p_fed = Len(p_input) => p_emitted = p_instructions

\* C14 witness: a stream of MaxStream instructions, among them the one with
\* elements made of digits and terminators, was received in several packets.
C14_Witness ==
    /\ p_fed = Len(p_input)
    /\ p_packets > 2
    /\ Len(p_emitted) = MaxStream
    /\ \E i \in 1..Len(p_emitted) : p_emitted[i].elements = << <<"1", ".">>, <<";", ",">> >>
    /\ \E i \in 1..Len(p_emitted) : p_emitted[i].elements = << <<>> >>

\* The number of bytes of the UTF-8 encoding of string s: U+4E16 takes three
\* bytes, the other characters of the model one.
Utf8Length(s) == Len(s) + 2 * Cardinality({ i \in 1..Len(s) : s[i] = "U4E16" })

\* The opcode and the elements of instruction i.
AllElements(i) == <<i.opcode>> \o i.elements

\* C15: the length prefix that getElement writes for an element is the
\* element's UTF-8 byte length: every element of the encoded instructions is
\* framed as <byte length>.<element>.
C15_LengthIsUtf8Bytes ==
    \A k \in 1..Len(p_instructions) :
        \A e \in Range(AllElements(p_instructions[k])) :
            getElement(e) = NumberToString(Utf8Length(e)) \o <<".">> \o e

(***************************************************************************)
(* Claims about Status, IntegerPool and the Client's output streams.       *)
(***************************************************************************)
\* C16: isError() returns true exactly when the code is negative or greater
\* than 0x00FF.
C16_IsErrorRange ==
    s_isError # <<>> => (s_isError[1] <=> (s_code < 0 \/ s_code > 255))

\* C16 witness: isError() was called on a Status with code 0x0100, the least
\* positive error code, and returned true.
C16_Witness == s_code = 256 /\ s_isError = <<TRUE>>

C18_AckFreesOnError ==
    [][ (k_event'.op = "ack" /\ k_output_streams[k_event'.index] # 0) =>
            /\ k_event'.onack = k_output_streams[k_event'.index]
            /\ IF isError(k_event'.code)
               THEN /\ k_output_streams'[k_event'.index] = 0
                    /\ k_stream_indices' = pool_free(k_stream_indices, k_event'.index)
               ELSE /\ k_output_streams' = k_output_streams
                    /\ k_stream_indices' = k_stream_indices ]_vars

(***************************************************************************)
(* Claims about the Client's connection state and its answers to sync.     *)
(***************************************************************************)
\* C19: every change of the client's state goes to a later state of IDLE,
\* CONNECTING, WAITING, CONNECTED, DISCONNECTING, DISCONNECTED; the state
\* becomes CONNECTED only in a sync handler entered in WAITING; and no
\* change follows DISCONNECTED.
C19_StateOnlyForward ==
    [][ LET path == <<cl_state>> \o cl_changes' IN
        /\ \A i \in 1..(Len(path) - 1) : path[i] < path[i + 1]
        /\ (\E i \in 1..Len(cl_changes') : cl_changes'[i] = STATE_CONNECTED)
              => (cl_event' = "sync" /\ cl_state = STATE_WAITING)
        /\ cl_state = STATE_DISCONNECTED => cl_changes' = <<>> ]_vars

\* The display has executed task t among its first n calls.
ExecutedWithin(t, n) ==
    \E i \in 1..n : executed[i].kind = "task" /\ executed[i].task = t

\* C20: when the answer to a sync is sent, every task scheduled before that
\* sync was received has executed, and the answers are sent in the order
\* the syncs were received.
C20_EchoAfterDrawing ==
    /\ \A e \in 1..Len(cl_echoes) :
          \A t \in 1..cl_syncs[cl_echoes[e].frame].tasks :
              ExecutedWithin(t, cl_echoes[e].at - 1)
    /\ \A e \in 1..(Len(cl_echoes) - 1) : cl_echoes[e].frame < cl_echoes[e + 1].frame

\* C20 witness: two image draws were waiting for their images when the first
\* sync arrived, a second sync arrived before both had loaded, and both
\* syncs have been answered.
C20_Witness ==
    /\ Len(cl_echoes) = 2
    /\ cl_event = "load"
    /\ Len(cl_calls) = 2
    /\ cl_syncs[1].tasks = 4
    /\ \A i \in 1..Len(cl_calls) : cl_calls[i].op = "sync"

\* C21: a keep-alive tick sends sync with the timestamp of the sync
\* instruction received last.
C21_PingCarriesLastReceived ==
    [][ (cl_event' = "ping" /\ cl_syncs # <<>>) =>
            cl_calls' = << [op |-> "sync", arg |-> cl_syncs[Len(cl_syncs)].timestamp] >> ]_vars

\* C21 as amended: a keep-alive tick sends sync with the timestamp of the
\* sync answered last, or 0 when no sync has been answered yet.
C21_PingCarriesLastAnswered ==
    [][ cl_event' = "ping" =>
            cl_calls' = << [op |-> "sync",
                            arg |-> IF cl_echoes = <<>> THEN 0
                                    ELSE cl_echoes[Len(cl_echoes)].timestamp] >> ]_vars

\* C21 witness: a keep-alive tick has sent the timestamp of an answered sync
\* while a later sync with another timestamp waits for an image.
C21_Witness ==
    /\ cl_event = "ping"
    /\ cl_echoes # <<>>
    /\ cl_calls = << [op |-> "sync", arg |-> cl_echoes[Len(cl_echoes)].timestamp] >>
    /\ cl_echoes[Len(cl_echoes)].frame < Len(cl_syncs)
    /\ cl_syncs[Len(cl_syncs)].timestamp # cl_echoes[Len(cl_echoes)].timestamp
    /\ cl_echoes[Len(cl_echoes)].timestamp # 0

\* C22: once the client is DISCONNECTED the display makes no further call
\* (no task of a pending frame runs, no frame callback is called) and no
\* keep-alive tick happens.
C22_DisconnectDropsFrames ==
    [][ cl_state = STATE_DISCONNECTED =>
            (executed' = executed /\ cl_event' # "ping") ]_vars

\* C23: when the tunnel closes on its own, the client's onerror is called
\* and the client's state is no longer WAITING or CONNECTED.
C23_TunnelErrorReachesClient ==
    [][ cl_event' = "tunnel closed" =>
            /\ cl_onerror' # <<>>
            /\ cl_state' \notin {STATE_WAITING, STATE_CONNECTED} ]_vars

(***************************************************************************)
(* Claims about ArrayBufferWriter and StringReader.                        *)
(***************************************************************************)
\* C24: the blobs of a sendData carry at most 8064 bytes each and, put
\* together in the order sent, give the data exactly: the first starts at
\* byte 0, each next one starts where the one before ended, the last ends
\* at the end of the data.
C24_BlobsTileData ==
    ab_length >= 0 =>
        /\ \A i \in 1..Len(ab_blobs) : ab_blobs[i].to - ab_blobs[i].from <= 8064
        /\ ab_blobs # <<>>
        /\ ab_blobs[1].from = 0
        /\ ab_blobs[Len(ab_blobs)].to = ab_length
        /\ \A i \in 2..Len(ab_blobs) : ab_blobs[i].from = ab_blobs[i - 1].to

\* Number of continuation bytes the leading byte b announces; 0 for an ASCII
\* byte, -1 for a byte that cannot start a sequence.
Continuations(b) ==
    IF b < 128 THEN 0
    ELSE IF b \in 192..223 THEN 1
    ELSE IF b \in 224..239 THEN 2
    ELSE IF b \in 240..247 THEN 3
    ELSE -1

IsContinuation(b) == b \in 128..191

\* The payload bits of the sequence bytes[i..i+k], as one number.
RECURSIVE Payload(_, _, _)
Payload(bytes, i, k) ==
    IF k = 0 THEN bytes[i] % (IF Continuations(bytes[i]) = 1 THEN 32
                               ELSE IF Continuations(bytes[i]) = 2 THEN 16 ELSE 8)
    ELSE Payload(bytes, i, k - 1) * 64 + (bytes[i + k] - 128)

\* The text the claim describes for the bytes from position i on: a complete
\* sequence gives its code unit, an invalid leading byte gives U+FFFD, an
\* invalid byte where a continuation byte is due gives U+FFFD and ends the
\* sequence, and a sequence the bytes end in gives nothing yet.
RECURSIVE TextFrom(_, _)
TextFrom(bytes, i) ==
    IF i > Len(bytes) THEN <<>>
    ELSE LET k == Continuations(bytes[i])
             bad == { j \in (i + 1)..(i + k) : j > Len(bytes) \/ ~IsContinuation(bytes[j]) }
             first == CHOOSE j \in bad : \A h \in bad : j <= h
         IN  IF k = -1 THEN <<REPLACEMENT>> \o TextFrom(bytes, i + 1)
             ELSE IF k = 0 THEN <<bytes[i]>> \o TextFrom(bytes, i + 1)
             ELSE IF bad = {} THEN <<Payload(bytes, i, k) % 65536>> \o TextFrom(bytes, i + k + 1)
             ELSE IF first > Len(bytes) THEN <<>>
             ELSE <<REPLACEMENT>> \o TextFrom(bytes, first + 1)

\* C25: however the bytes are cut into blobs, the counter of pending
\* continuation bytes is within 0..3, the text decoded so far is the text
\* described above for the bytes delivered so far (one U+FFFD per invalid
\* leading byte and per invalid continuation byte, after which decoding
\* starts afresh), and it is the text a new reader decodes from these bytes
\* arriving in one blob.
C25_DecodingIgnoresBlobCuts ==
    LET delivered == SubSeq(sr_input, 1, sr_fed) IN
    /\ sr_bytes_remaining \in 0..3
    /\ sr_text = TextFrom(delivered, 1)
    /\ sr_text = decode_utf8(NewReader, delivered).text

\* C25 witness: a blob ended inside a 2-byte sequence that the next blob
\* completed, then a 3-byte sequence was broken by an ASCII byte.
C25_Witness ==
    /\ sr_input = <<195, 128, 228, 65>>
    /\ sr_fed = 4
    /\ 1 \in sr_cuts
    /\ sr_text = <<192, REPLACEMENT>>

(***************************************************************************)
(* More claims about the Display.                                          *)
(***************************************************************************)
\* Every task and every callback of the frames flushed so far has been
\* called.
AllFlushedExecuted ==
    \A i \in 1..Len(flushed) :
        /\ \A j \in 1..Len(flushed[i].tasks) :
              \E e \in 1..Len(executed) :
                  executed[e] = [kind |-> "task", task |-> flushed[i].tasks[j]]
        /\ flushed[i].callback =>
              \E e \in 1..Len(executed) : executed[e] = [kind |-> "callback", frame |-> i]

\* C26: after every flush and every unblock the frame queue is empty or its
\* head frame holds a blocked task; hence, as soon as the last blocked task
\* has been unblocked, no frame waits and every flushed frame has run with
\* its callback.
C26_NoReadyFrameWaits ==
    /\ frames = <<>> \/ ~isReady(frames[1], blocked)
    /\ (\A t \in 1..Len(blocked) : ~blocked[t]) =>
          (frames = <<>> /\ AllFlushedExecuted)

\* C26 witness: two frames waited, the head for a blocked task, and both
\* have run with their callbacks after the unblock.
C26_Witness ==
    /\ frames = <<>>
    /\ Len(flushed) >= 2
    /\ flushed[1].callback /\ flushed[2].callback
    /\ \E j \in 1..Len(flushed[1].tasks) : startBlocked[flushed[1].tasks[j]]
    /\ \E e \in 1..(Len(executed) - 1) :
          /\ executed[e] = [kind |-> "callback", frame |-> 1]
          /\ executed[Len(executed)] = [kind |-> "callback", frame |-> 2]
    /\ AllFlushedExecuted

(***************************************************************************)
(* Claims about the Client's input streams.                                *)
(***************************************************************************)
\* C27: once the holder of an input stream has acknowledged with a code of
\* 0x0100 or above, the stream is no longer in the client's table, and no
\* blob or end instruction is delivered to its handlers.
C27_RefusedStreamDestroyed ==
    \A s \in in_refused :
        /\ in_streams[in_index[s]] # s
        /\ in_event.op \in {"blob", "end"} => in_event.stream # s

(***************************************************************************)
(* More claims about the Parser.                                           *)
(***************************************************************************)
\* C28: of a stream holding a malformed element (a non-digit character in
\* its length, or a character other than "," and ";" after it), only the
\* instructions before that element are emitted, and once the whole stream
\* has been received receive has thrown an error.
C28_MalformedFails ==
    /\ Len(p_emitted) <= Len(p_instructions)
    /\ \A i \in 1..Len(p_emitted) : p_emitted[i] = p_instructions[i]
    /\ p_fed = Len(p_input) => p_error # ""

(***************************************************************************)
(* Claims about the read requests of the HTTPTunnel.                       *)
(***************************************************************************)
\* C29: no interval is running for a read request whose response was ended
\* by a zero length.
C29_TerminatedReadHasNoInterval ==
    \A r \in 1..Len(rq_requests) :
        rq_requests[r].terminated => ~rq_requests[r].timer

\* The read requests that were sent and are neither complete nor aborted.
Outstanding == { r \in 1..Len(rq_requests) : rq_requests[r].readyState \in {1, 2, 3} }

\* C30: read responses are consumed one at a time in the order of the
\* requests: a request made at most one successor, the sequence numbers are
\* 0, 1, 2, ... in the order of creation, an instruction of a request is
\* delivered only when the request before it was ended by a zero length, and
\* at most two read requests are outstanding.
C30_ReadsOneAtATime ==
    /\ \A r \in 1..Len(rq_requests) :
          Cardinality({ s \in 1..Len(rq_requests) : rq_requests[s].madeBy = r }) <= 1
    /\ \A r \in 1..Len(rq_requests) : rq_requests[r].id = r - 1
    /\ \A i \in 1..Len(rq_new) :
          rq_new[i].request > 1 => rq_requests[rq_new[i].request - 1].terminated
    /\ Cardinality(Outstanding) <= 2

(***************************************************************************)
(* The Parser's buffer.                                                    *)
(***************************************************************************)
\* The length of the encoding of the i-th instruction of the stream.
EncodedLength(i) == Len(Encode(<<p_instructions[i]>>))

\* The longest instruction of the stream, and the longest packet received
\* so far (under SpecAligned the k-th packet is the k-th instruction).
LongestInstruction ==
    IF p_instructions = <<>> THEN 0
    ELSE CHOOSE n \in { EncodedLength(i) : i \in 1..Len(p_instructions) } :
            \A i \in 1..Len(p_instructions) : EncodedLength(i) <= n
LongestPacket ==
    IF p_packets = 0 THEN 0
    ELSE CHOOSE n \in { EncodedLength(i) : i \in 1..p_packets } :
            \A i \in 1..p_packets : EncodedLength(i) <= n

\* C39: the buffer the parser keeps is never longer than 4096 plus the
\* longest instruction plus the longest packet.
C39_BufferBounded ==
    Len(p_buffer) <= TruncateAbove + LongestInstruction + LongestPacket

(***************************************************************************)
(* More claims about the Client's output streams.                          *)
(***************************************************************************)
\* An output stream is live when it was created and neither ended by
\* sendEnd nor invalidated by an ack.
Live(s) == ~k_ended[s] /\ ~k_invalid[s]

\* C34: no index is in the pool of free indices more than once, no index in
\* the pool is the index of a live output stream, and no two live output
\* streams have the same index.
C34_IndicesUnique ==
    LET pool == k_stream_indices.pool IN
    /\ \A i, j \in 1..Len(pool) : pool[i] = pool[j] => i = j
    /\ \A i \in 1..Len(pool) : \A s \in 1..Len(k_index) : Live(s) => k_index[s] # pool[i]
    /\ \A s, t \in 1..Len(k_index) : (Live(s) /\ Live(t) /\ k_index[s] = k_index[t]) => s = t

\* C35: an ack the server sent for an output stream calls the onack of no
\* other stream and takes no other stream out of the table.
C35_AckOnlyForItsStream ==
    [][ (k_event'.op = "ack" /\ k_event'.for # 0) =>
            /\ k_event'.onack \in {0, k_event'.for}
            /\ \A i \in Indices :
                  k_output_streams'[i] # k_output_streams[i] =>
                      k_output_streams[i] = k_event'.for ]_vars

(***************************************************************************)
(* Claims about callbacks that call back into the Display.                 *)
(***************************************************************************)
\* The number of times task t was executed, and the callback of frame f
\* was called.
Executions(t) ==
    Cardinality({ i \in 1..Len(executed) : executed[i].kind = "task" /\ executed[i].task = t })
Callbacks(f) ==
    Cardinality({ i \in 1..Len(executed) : executed[i].kind = "callback" /\ executed[i].frame = f })

\* C36: every task is executed at most once and every frame callback is
\* called at most once, also when a callback calls Display.flush.
C36_AtMostOnce ==
    /\ \A t \in 1..Len(blocked) : Executions(t) <= 1
    /\ \A f \in 1..Len(flushed) : Callbacks(f) <= 1

(***************************************************************************)
(* More claims about the ChainedTunnel.                                    *)
(***************************************************************************)
\* C37: disconnect() on a chained tunnel whose attached inner tunnel is not
\* committed calls connect on no inner tunnel and calls the consumer's
\* onstatechange with CLOSED. (Under SpecChainErrors a tunnel closes with
\* SUCCESS only by disconnect.)
C37_DisconnectEndsChain ==
    [][ (c_committed = 0 /\ c_attached # 0 /\ c_failCode[c_attached] # SUCCESS
            /\ c_failCode'[c_attached] = SUCCESS) =>
            /\ c_connects' = c_connects
            /\ \E i \in 1..Len(c_new') :
                  c_new'[i].type = "statechange" /\ c_new'[i].arg = CLOSED ]_vars

(***************************************************************************)
(* More claims about the read requests of the HTTPTunnel.                  *)
(***************************************************************************)
\* The instructions given to oninstruction by the latest step for request r.
DeliveredFor(r) ==
    LET S == { i \in 1..Len(rq_new) : rq_new[i].request = r }
        F[i \in 0..Len(rq_new)] ==
            IF i = 0 THEN <<>>
            ELSE IF i \in S
            THEN Append(F[i - 1], [opcode |-> rq_new[i].opcode, elements |-> rq_new[i].elements])
            ELSE F[i - 1]
    IN  F[Len(rq_new)]

\* C33: a response that is parsed from its start to its zero length in one
\* step gives oninstruction every instruction it carries, once and in order.
C33_ResponseDelivered ==
    [][ \A r \in 1..Len(rq_requests) :
          (/\ rq_requests[r].startIndex = 0 /\ rq_requests[r].elementEnd = -1
           /\ ~rq_requests[r].terminated
           /\ rq_requests'[r].terminated) =>
              rq_requests'[r].text = ResponseOf(DeliveredFor(r)') ]_vars

(***************************************************************************)
(* Claims about the message handler of the WebSocketTunnel.                *)
(***************************************************************************)
\* C32: socket.onmessage returns for every message; when the "." of a
\* length is missing after the instructions of the message, the tunnel is
\* closed with SERVER_ERROR, and oninstruction is called for the
\* instructions before that place and for nothing else.
C32_MessageHandled ==
    wm_called =>
        /\ ~wm_hangs
        /\ wm_tail # <<>> => wm_closed
        /\ wm_delivered = wm_instructions

(***************************************************************************)
(* Claims about the visible layers.                                        *)
(***************************************************************************)
\* Every task scheduled so far has executed.
AllTasksExecuted == \A t \in 1..Len(blocked) : ExecutedWithin(t, Len(executed))

\* C38: when a move or dispose instruction changes the layers, every
\* drawing task scheduled by an earlier instruction has executed.
C38_EffectsInWireOrder ==
    [][ (ly_parent' # ly_parent \/ ly_children' # ly_children) => AllTasksExecuted ]_vars

LayerObjects == 1..Len(ly_parent)

\* The objects reached from object l by following parent at most n times.
RECURSIVE Ancestors(_, _)
Ancestors(l, n) ==
    IF n = 0 \/ ly_parent[l] = 0 THEN {}
    ELSE {ly_parent[l]} \cup Ancestors(ly_parent[l], n - 1)

\* C40: the visible layers form a tree: a layer is among the children of at
\* most one layer, it is among the children of p exactly when its parent is
\* p, and no layer is its own parent or ancestor.
C40_LayersFormTree ==
    /\ \A l, p, q \in LayerObjects :
          (l \in ly_children[p] /\ l \in ly_children[q]) => p = q
    /\ \A l, p \in LayerObjects : l \in ly_children[p] <=> ly_parent[l] = p
    /\ \A l \in LayerObjects : l \notin Ancestors(l, Len(ly_parent))

(***************************************************************************)
(* Claims about the Layer.                                                 *)
(***************************************************************************)
\* C31: push adds one to the number of saved states, pop takes one away
\* unless there is none, reset and a resize that changes the size make it
\* zero, and a resize to the same size and every drawing operation leave it
\* unchanged.
C31_DepthByPushPop ==
    [][ /\ la_event' = "push" => la_stackSize' = la_stackSize + 1
        /\ la_event' = "pop" =>
              la_stackSize' = (IF la_stackSize > 0 THEN la_stackSize - 1 ELSE 0)
        /\ la_event' = "reset" => la_stackSize' = 0
        /\ la_event' = "resize" =>
              la_stackSize' =
                  (IF la_width' # la_width \/ la_height' # la_height THEN 0 ELSE la_stackSize)
        /\ la_event' = "draw" => la_stackSize' = la_stackSize ]_vars

====
